---- MODULE Spec2Model ----
(***************************************************************************)
(* Model of the multimedia file server of src/index.js: range-request      *)
(* streaming (GET /video, GET /download/:filename), uploads (POST /upload, *)
(* POST /upload-multiple) and DELETE /files/:filename, over a shared disk. *)
(*                                                                         *)
(* Strings that the code parses or formats are sequences of one-character  *)
(* strings, JavaScript numbers are records [nan, v] so that NaN and its    *)
(* comparison rules are part of the model, and the disk is a function from *)
(* the paths that exist to their bytes.                                    *)
(***************************************************************************)
EXTENDS Integers, Sequences, FiniteSets, TLC

\* ------------------------------------------------------------------ bounds
\* Largest file size (bytes) of a file on the disk at start-up.
MaxFileSize == 3
\* Largest number of bytes one 'data' event of a read stream carries.
MaxChunk == 2
\* Number of concurrent GET requests.
MaxReq == 2

\* --------------------------------------------------------- JavaScript values
NaN == [nan |-> TRUE, v |-> 0]
Num(n) == [nan |-> FALSE, v |-> n]

\* a >= b on JavaScript numbers: every comparison with NaN is false.
JsGe(a, b) == ~a.nan /\ ~b.nan /\ a.v >= b.v

JsSub(a, b) == IF a.nan \/ b.nan THEN NaN ELSE Num(a.v - b.v)

JsAdd(a, b) == IF a.nan \/ b.nan THEN NaN ELSE Num(a.v + b.v)

DigitChars == <<"0", "1", "2", "3", "4", "5", "6", "7", "8", "9">>

IsDigit(c) == \E i \in 1..10 : DigitChars[i] = c

DigitVal(c) == (CHOOSE i \in 1..10 : DigitChars[i] = c) - 1

\* The decimal text of a natural number, as a template literal prints it.
RECURSIVE NatToStr(_)
NatToStr(n) ==
  IF n < 10 THEN <<DigitChars[n + 1]>>
  ELSE NatToStr(n \div 10) \o <<DigitChars[(n % 10) + 1]>>

\* `${x}` of a JavaScript number.
NumToStr(x) ==
  IF x.nan THEN <<"N", "a", "N">>
  ELSE IF x.v < 0 THEN <<"-">> \o NatToStr(0 - x.v)
  ELSE NatToStr(x.v)

Tail2(s, k) == SubSeq(s, k + 1, Len(s))

\* The longest prefix of s made of decimal digits.
RECURSIVE DigitPrefix(_)
DigitPrefix(s) ==
  IF s = <<>> \/ ~IsDigit(Head(s)) THEN <<>>
  ELSE <<Head(s)>> \o DigitPrefix(Tail(s))

RECURSIVE DigitsValue(_, _)
DigitsValue(s, acc) ==
  IF s = <<>> THEN acc ELSE DigitsValue(Tail(s), acc * 10 + DigitVal(Head(s)))

RECURSIVE SkipSpaces(_)
SkipSpaces(s) ==
  IF s # <<>> /\ Head(s) = " " THEN SkipSpaces(Tail(s)) ELSE s

\* parseInt(s, 10): leading blanks, an optional sign, then the longest run of
\* digits; NaN when there is no digit.
ParseInt(s) ==
  LET t == SkipSpaces(s)
      neg == t # <<>> /\ Head(t) = "-"
      u == IF t # <<>> /\ Head(t) \in {"-", "+"} THEN Tail(t) ELSE t
      d == DigitPrefix(u)
  IN IF d = <<>> THEN NaN
     ELSE Num(IF neg THEN 0 - DigitsValue(d, 0) ELSE DigitsValue(d, 0))

IsPrefix(p, s) == Len(p) <= Len(s) /\ SubSeq(s, 1, Len(p)) = p

\* s.replace(/pat/, ""): the first occurrence of pat is removed.
RECURSIVE ReplaceFirst(_, _)
ReplaceFirst(s, pat) ==
  IF IsPrefix(pat, s) THEN Tail2(s, Len(pat))
  ELSE IF s = <<>> THEN <<>>
  ELSE <<Head(s)>> \o ReplaceFirst(Tail(s), pat)

\* s.split(sep) for a one-character separator: the pieces between separators.
RECURSIVE Split(_, _)
Split(s, sep) ==
  IF \A i \in 1..Len(s) : s[i] # sep THEN <<s>>
  ELSE LET k == CHOOSE i \in 1..Len(s) : s[i] = sep /\ \A j \in 1..(i - 1) : s[j] # sep
       IN <<SubSeq(s, 1, k - 1)>> \o Split(Tail2(s, k), sep)

BytesEq == <<"b", "y", "t", "e", "s", "=">>

BytesSp == <<"b", "y", "t", "e", "s", " ">>

Min(a, b) == IF a <= b THEN a ELSE b

\* ------------------------------------------------------------------- state
VARIABLES
  disk,      \* the files that exist: path -> sequence of bytes
  serverUp,  \* FALSE once an uncaught exception has ended the process
  req,       \* GET /video and GET /download requests: id -> request record
  del,       \* the response of the last DELETE /files/:filename
  plan,      \* the byte ranges a round-trip client still has to ask for
  up,        \* the POST /upload request: its closure variables and streams
  mu,        \* the POST /upload-multiple request
  pair,      \* two concurrent uploads that carry the same original name
  zip,       \* the POST /download-zip request and its archive
  ls         \* the response of the last GET /files

streamVars == <<req, del, plan>>

uploadVars == <<up, mu>>

\* ------------------------------------------------------------ the file system
VideoPath == "sample-video.mp4"

\* A JavaScript string as a TLA+ string.
RECURSIVE StrOf(_)
StrOf(cs) == IF cs = <<>> THEN "" ELSE Head(cs) \o StrOf(Tail(cs))

\* path.normalize on the segments of a path relative to __dirname: empty and
\* "." segments are dropped, ".." takes back the segment before it, or stays
\* when there is none to take back.
RECURSIVE NormalizeSegs(_, _)
NormalizeSegs(segs, acc) ==
  IF segs = <<>> THEN acc
  ELSE LET s == Head(segs)
       IN NormalizeSegs(Tail(segs),
            IF s = <<>> \/ s = <<".">> THEN acc
            ELSE IF s = <<".", ".">> /\ acc # <<>> /\ acc[Len(acc)] # <<".", ".">>
              THEN SubSeq(acc, 1, Len(acc) - 1)
            ELSE Append(acc, s))

RECURSIVE JoinSegs(_)
JoinSegs(segs) ==
  IF segs = <<>> THEN <<>>
  ELSE IF Len(segs) = 1 THEN segs[1]
  ELSE segs[1] \o <<"/">> \o JoinSegs(Tail(segs))

\* path.join(__dirname, dir, filename), written relative to __dirname.
PathJoin(dir, filename) ==
  JoinSegs(NormalizeSegs(<<dir>> \o Split(filename, "/"), <<>>))

UploadsDir == <<"u", "p", "l", "o", "a", "d", "s">>

\* The filenames of clients that hold a separator, as characters: a file of
\* the project directory, a file above the project directory, and file a of
\* uploads by a detour.
SeparatorNames ==
  {<<".", ".", "/", "x">>, <<".", ".", "/", ".", ".", "/", "y">>,
   <<"s", "/", ".", ".", "/", "a">>}

\* path.join for each of these filenames.
JoinedPaths ==
  [filename \in {StrOf(cs) : cs \in SeparatorNames} |->
     StrOf(PathJoin(UploadsDir, CHOOSE cs \in SeparatorNames : StrOf(cs) = filename))]

\* path.join(__dirname, 'uploads', filename): a filename is appended to the
\* uploads directory, and normalised when it holds a separator.
UploadPath(filename) ==
  IF filename \in DOMAIN JoinedPaths THEN JoinedPaths[filename]
  ELSE "uploads/" \o filename

MetaPath(filePath) == filePath \o ".meta"

ExistsSync(d, p) == p \in DOMAIN d

\* fs.statSync(p).size
StatSize(d, p) == Len(d[p])

\* fs.unlinkSync(p)
Unlink(d, p) == [q \in (DOMAIN d) \ {p} |-> d[q]]

\* The bytes of a start-up file of n bytes: byte i of the file is base + i.
Content(base, n) == [i \in 1..n |-> base + i - 1]

\* ---------------------------------------------------------------- responses
NoRange == [present |-> FALSE, text |-> <<>>]

RangeOf(text) == [present |-> TRUE, text |-> text]

NoHeaders == [contentRange |-> <<>>, contentLength |-> <<>>, acceptRanges |-> ""]

NoStream == [state |-> "none", from |-> 0, to |-> 0, whole |-> FALSE, pos |-> 0, data |-> <<>>]

NewReq ==
  [phase |-> "new", route |-> "none", path |-> "", range |-> NoRange,
   status |-> 0, statusLines |-> 0, json |-> "", hdr |-> NoHeaders,
   body |-> <<>>, rs |-> NoStream, uncaught |-> FALSE]

\* uploadedFile = null
NoUploadedFile == [set |-> FALSE, filename |-> "", originalName |-> <<>>, size |-> 0]

\* POST /upload before the request arrives.
IdleUpload ==
  [phase |-> "idle", isResponseSent |-> FALSE, sent |-> <<>>, timer |-> "none",
   uploadError |-> "", uploadedFile |-> NoUploadedFile, fileSeen |-> FALSE,
   originalName |-> <<>>, filename |-> "", fstream |-> "none", ws |-> "none",
   wsOpened |-> FALSE, buffered |-> <<>>, received |-> 0, statPending |-> FALSE,
   parser |-> "none", delayPending |-> FALSE, uncaught |-> FALSE,
   elapsed |-> FALSE, partSent |-> 0, statResult |-> "none", statSize |-> 0]

\* POST /upload-multiple before the request arrives.
IdleMulti ==
  [phase |-> "idle", sent |-> <<>>, uploadedFiles |-> <<>>, fileCount |-> 0,
   parts |-> <<>>, parser |-> "none", uncaught |-> FALSE]

\* The two concurrent uploads before either file part arrives.
IdlePair ==
  [i \in 1..2 |-> [phase |-> "idle", route |-> "", filename |-> "", written |-> 0]]

\* POST /download-zip before the request arrives.
IdleZip ==
  [phase |-> "idle", status |-> 0, statusLines |-> 0, json |-> "",
   hdr |-> [contentType |-> "", disposition |-> "", contentLength |-> ""],
   body |-> [kind |-> "none", list |-> <<>>], archive |-> "none", queued |-> <<>>, stat |-> <<>>,
   entries |-> <<>>, bytesOut |-> 0, connected |-> TRUE, closeSeen |-> FALSE,
   warned |-> <<>>, ended |-> FALSE, uncaught |-> FALSE]

\* GET /files before any listing was asked for.
NoListing == [status |-> 0, files |-> {}, count |-> 0]

\* res.status(code).json({error: msg}): once the headers of the response are
\* sent it throws ERR_HTTP_HEADERS_SENT instead of writing anything.
StatusJson(q, code, msg) ==
  IF q.statusLines > 0 THEN [q EXCEPT !.uncaught = TRUE]
  ELSE [q EXCEPT !.phase = "answered", !.status = code, !.statusLines = @ + 1,
                 !.json = msg]

\* res.writeHead(code, headers)
WriteHead(q, code, headers) ==
  [q EXCEPT !.status = code, !.statusLines = @ + 1, !.hdr = headers]

\* Mutant of CreateReadStreamThrows: any start and end accepted.
CreateReadStreamAccepts(start, end) == FALSE

\* fs.createReadStream(filePath, {start, end}) rejects a start or end that is
\* not a non-negative integer, and a start above the end.
CreateReadStreamThrows(start, end) ==
  start.nan \/ end.nan \/ start.v < 0 \/ end.v < 0 \/ start.v > end.v

\* fs.createReadStream(filePath, {start, end}) followed by pipeline(file, res, cb)
PipeRange(q, start, end) ==
  [q EXCEPT !.phase = "piping",
            !.rs = [state |-> "created", from |-> start.v, to |-> end.v,
                    whole |-> FALSE, pos |-> start.v, data |-> <<>>]]

\* fs.createReadStream(filePath) followed by pipeline(file, res, cb)
PipeWhole(q) ==
  [q EXCEPT !.phase = "piping",
            !.rs = [state |-> "created", from |-> 0, to |-> 0,
                    whole |-> TRUE, pos |-> 0, data |-> <<>>]]

\* --------------------------------------------------------------- Range Parser
RangeParts(text) == Split(ReplaceFirst(text, BytesEq), "-")

RangeStart(text) == ParseInt(RangeParts(text)[1])

\* Mutant of RangeEnd: the parsed number tested for truthiness instead of the
\* text, so that an end of 0 falls back to the last byte.
RangeEndZeroOpen(text, fileSize) ==
  LET parts == RangeParts(text)
      n == IF Len(parts) >= 2 THEN ParseInt(parts[2]) ELSE NaN
  IN IF n.nan \/ n.v = 0 THEN Num(fileSize - 1) ELSE n

\* parts[1] ? parseInt(parts[1], 10) : fileSize - 1
RangeEnd(text, fileSize) ==
  LET parts == RangeParts(text)
  IN IF Len(parts) >= 2 /\ parts[2] # <<>> THEN ParseInt(parts[2])
     ELSE Num(fileSize - 1)

\* Mutant of RangeRejected: > written for >=.
RangeRejectedStrict(start, end, fileSize) ==
  (~start.nan /\ start.v > fileSize) \/ (~end.nan /\ end.v > fileSize)

\* start >= fileSize || end >= fileSize
RangeRejected(start, end, fileSize) ==
  JsGe(start, Num(fileSize)) \/ JsGe(end, Num(fileSize))

ContentRange(start, end, fileSize) ==
  BytesSp \o NumToStr(start) \o <<"-">> \o NumToStr(end) \o <<"/">> \o NatToStr(fileSize)

\* Mutant of ChunkSize: the end of the range taken as exclusive.
ChunkSizeExclusive(start, end) == JsSub(end, start)

ChunkSize(start, end) == JsAdd(JsSub(end, start), Num(1))

\* The ranged branch of both handlers up to the point where createReadStream
\* throws; onThrow is what the route does with the exception.
RangedBranch(q, fileSize, onThrow) ==
  LET start == RangeStart(q.range.text)
      end == RangeEnd(q.range.text, fileSize)
  IN IF RangeRejected(start, end, fileSize)
       THEN StatusJson(q, 416, "Requested range not satisfiable")
     ELSE IF CreateReadStreamThrows(start, end) THEN onThrow
     ELSE PipeRange(
            WriteHead(q, 206,
              [contentRange |-> ContentRange(start, end, fileSize),
               contentLength |-> NumToStr(ChunkSize(start, end)),
               acceptRanges |-> "bytes"]),
            start, end)

\* Mutant of WholeBranch: Content-Length taken from the last offset.
WholeBranchShort(q, fileSize) ==
  PipeWhole(
    WriteHead(q, 200,
      [contentRange |-> <<>>,
       contentLength |-> NumToStr(Num(fileSize - 1)),
       acceptRanges |-> "bytes"]))

\* The unranged branch of both handlers.
WholeBranch(q, fileSize) ==
  PipeWhole(
    WriteHead(q, 200,
      [contentRange |-> <<>>, contentLength |-> NatToStr(fileSize),
       acceptRanges |-> "bytes"]))

\* if (range): a header that is absent or empty is falsy.
HasRange(q) == q.range.present /\ q.range.text # <<>>

\* The error-handling middleware, reached by an exception thrown out of a route.
ErrorMiddleware(q, code) ==
  IF code \in {"ERR_STREAM_PREMATURE_CLOSE", "ECONNRESET"} THEN q
  ELSE StatusJson(q, 500, "Something went wrong!")

\* app.get("/video")
VideoHandler(d, range) ==
  LET q == [NewReq EXCEPT !.route = "video", !.path = VideoPath, !.range = range]
  IN IF ~ExistsSync(d, VideoPath) THEN StatusJson(q, 404, "Video file not found")
     ELSE IF HasRange(q)
       THEN RangedBranch(q, StatSize(d, VideoPath), ErrorMiddleware(q, "ERR_OUT_OF_RANGE"))
     ELSE WholeBranch(q, StatSize(d, VideoPath))

\* Mutant of DownloadHandler: no existsSync check, so statSync throws on a
\* missing file and the catch answers 500.
DownloadHandlerNoExistsCheck(d, filename, range) ==
  LET p == UploadPath(filename)
      q == [NewReq EXCEPT !.route = "download", !.path = p, !.range = range]
  IN IF ~ExistsSync(d, p) THEN StatusJson(q, 500, "Download failed")
     ELSE IF HasRange(q)
       THEN RangedBranch(q, StatSize(d, p), StatusJson(q, 500, "Download failed"))
     ELSE WholeBranch(q, StatSize(d, p))

\* app.get("/download/:filename")
DownloadHandler(d, filename, range) ==
  LET p == UploadPath(filename)
      q == [NewReq EXCEPT !.route = "download", !.path = p, !.range = range]
  IN IF ~ExistsSync(d, p) THEN StatusJson(q, 404, "File not found")
     ELSE IF HasRange(q)
       THEN RangedBranch(q, StatSize(d, p), StatusJson(q, 500, "Download failed"))
     ELSE WholeBranch(q, StatSize(d, p))

\* ------------------------------------------------- streaming: the requests
ReqIds == 1..(IF MaxReq > MaxFileSize THEN MaxReq ELSE MaxFileSize)

\* The pieces a client puts before and after the dash of a Range header.
RangeTokens ==
  {<<>>, <<"x">>, <<"1", "0">>} \cup {NatToStr(n) : n \in 0..MaxFileSize}

\* The Range headers a client sends: none, empty, bytes=a-b (a suffix range
\* when a is empty), bytes=a, a multi-range list, and negative numbers.
RangeHeaders ==
  {NoRange, RangeOf(<<>>)}
    \cup {RangeOf(BytesEq \o a \o <<"-">> \o b) : a \in RangeTokens, b \in RangeTokens}
    \cup {RangeOf(BytesEq \o a) : a \in RangeTokens}
    \cup {RangeOf(BytesEq \o <<"0", "-", "0", ",", "1", "-", "2">>)}
    \cup {RangeOf(BytesEq \o <<"-", "1", "-", "2">>),
          RangeOf(BytesEq \o <<"1", "-", "-", "1">>)}

\* The :filename values a client asks for: a stored file and a missing one.
DownloadNames == {"a", "zz"}

\* Mutant of LastOffset: the end option of the read stream taken as exclusive.
LastOffsetExclusive(q) ==
  IF q.rs.whole THEN Len(q.rs.data) - 1 ELSE Min(q.rs.to - 1, Len(q.rs.data) - 1)

\* The last offset the read stream of q delivers.
LastOffset(q) ==
  IF q.rs.whole THEN Len(q.rs.data) - 1 ELSE Min(q.rs.to, Len(q.rs.data) - 1)

\* Mutant of PipelineCallback: a stream error is answered with a 500 body.
PipelineCallbackResponds(q, code) ==
  IF code \in {"", "ERR_STREAM_PREMATURE_CLOSE"} THEN q
  ELSE StatusJson(q, 500, "Streaming failed")

\* The callback of pipeline(file, res, cb): it only logs.
PipelineCallback(q, code) == q

\* pipeline() on failure: both streams are destroyed, then the callback runs.
TearDown(q, code) ==
  PipelineCallback([q EXCEPT !.phase = "torn", !.rs.state = "closed"], code)

\* Request r arrives at GET /video with one of the Range headers H.
GetVideo(r, H) ==
  /\ serverUp
  /\ req[r].phase = "new"
  /\ IF r = 1 THEN TRUE ELSE req[r - 1].phase # "new"
  /\ \E range \in H : req' = [req EXCEPT ![r] = VideoHandler(disk, range)]
  /\ UNCHANGED <<disk, serverUp, del, plan, up, mu, pair, zip, ls>>

\* Request r arrives at GET /download/:filename for one of the names N, with
\* one of the Range headers H.
GetDownload(r, H, N) ==
  /\ serverUp
  /\ req[r].phase = "new"
  /\ IF r = 1 THEN TRUE ELSE req[r - 1].phase # "new"
  /\ \E range \in H, name \in N :
       req' = [req EXCEPT ![r] = DownloadHandler(disk, name, range)]
  /\ UNCHANGED <<disk, serverUp, del, plan, up, mu, pair, zip, ls>>

\* The read stream opens its file: ENOENT when the file is gone by then.
StreamOpen(r) ==
  /\ serverUp
  /\ req[r].phase = "piping"
  /\ req[r].rs.state = "created"
  /\ IF ExistsSync(disk, req[r].path)
       THEN req' = [req EXCEPT ![r].rs.state = "open", ![r].rs.data = disk[req[r].path]]
       ELSE req' = [req EXCEPT ![r] = TearDown(req[r], "ENOENT")]
  /\ serverUp' = ~req'[r].uncaught
  /\ UNCHANGED <<disk, del, plan, up, mu, pair, zip, ls>>

\* One 'data' event: the next bytes of the open file go to the response.
StreamRead(r) ==
  /\ serverUp
  /\ req[r].phase = "piping"
  /\ req[r].rs.state = "open"
  /\ req[r].rs.pos <= LastOffset(req[r])
  /\ \E k \in 1..MaxChunk :
       LET q == req[r]
           upto == Min(q.rs.pos + k - 1, LastOffset(q))
       IN req' = [req EXCEPT ![r].body = @ \o SubSeq(q.rs.data, q.rs.pos + 1, upto + 1),
                             ![r].rs.pos = upto + 1]
  /\ UNCHANGED <<disk, serverUp, del, plan, up, mu, pair, zip, ls>>

\* The read stream reaches its end: res.end(), pipeline completes without error.
StreamEnd(r) ==
  /\ serverUp
  /\ req[r].phase = "piping"
  /\ req[r].rs.state = "open"
  /\ req[r].rs.pos > LastOffset(req[r])
  /\ req' = [req EXCEPT ![r] =
               PipelineCallback([req[r] EXCEPT !.phase = "ended", !.rs.state = "closed"], "")]
  /\ serverUp' = ~req'[r].uncaught
  /\ UNCHANGED <<disk, del, plan, up, mu, pair, zip, ls>>

\* A read of the open file fails mid-stream.
ReadError(r) ==
  /\ serverUp
  /\ req[r].phase = "piping"
  /\ req[r].rs.state = "open"
  /\ req' = [req EXCEPT ![r] = TearDown(req[r], "EIO")]
  /\ serverUp' = ~req'[r].uncaught
  /\ UNCHANGED <<disk, del, plan, up, mu, pair, zip, ls>>

\* The client disconnects before the response is complete.
ClientClose(r) ==
  /\ serverUp
  /\ req[r].phase = "piping"
  /\ req' = [req EXCEPT ![r] = TearDown(req[r], "ERR_STREAM_PREMATURE_CLOSE")]
  /\ serverUp' = ~req'[r].uncaught
  /\ UNCHANGED <<disk, del, plan, up, mu, pair, zip, ls>>

\* Mutant of DeleteHandler: the sidecar is left in place.
DeleteHandlerKeepsMeta(d, filename) ==
  LET p == UploadPath(filename)
  IN IF ~ExistsSync(d, p)
       THEN [disk |-> d, res |-> [name |-> filename, status |-> 404]]
     ELSE [disk |-> Unlink(d, p), res |-> [name |-> filename, status |-> 200]]

\* app.delete("/files/:filename")
DeleteHandler(d, filename) ==
  LET p == UploadPath(filename)
  IN IF ~ExistsSync(d, p)
       THEN [disk |-> d, res |-> [name |-> filename, status |-> 404]]
     ELSE [disk |-> IF ExistsSync(Unlink(d, p), MetaPath(p))
                      THEN Unlink(Unlink(d, p), MetaPath(p))
                      ELSE Unlink(d, p),
           res |-> [name |-> filename, status |-> 200]]

\* A request arrives at DELETE /files/:filename for one of the names N.
DeleteFile(N) ==
  /\ serverUp
  /\ \E name \in N :
       /\ disk' = DeleteHandler(disk, name).disk
       /\ del' = DeleteHandler(disk, name).res
  /\ UNCHANGED <<serverUp, req, plan, up, mu, pair, zip, ls>>

NoDelete == [name |-> "", status |-> 0]

\* The disk at start-up: the video and the stored file "a" (with its sidecar),
\* each present or not.
StartDisks ==
  {[p \in (IF v < 0 THEN {} ELSE {VideoPath})
            \cup (IF a < 0 THEN {} ELSE {UploadPath("a"), MetaPath(UploadPath("a"))}) |->
      IF p = VideoPath THEN Content(10, v)
      ELSE IF p = UploadPath("a") THEN Content(20, a)
      ELSE <<77>>] :
    v \in (0 - 1)..MaxFileSize, a \in (0 - 1)..MaxFileSize}

\* One request against every start-up disk and every Range header, with the
\* file deleted, the read failing or the client leaving at any point.
InitRange ==
  /\ disk \in StartDisks
  /\ serverUp = TRUE
  /\ req = [r \in ReqIds |-> NewReq]
  /\ del = NoDelete
  /\ plan = <<>>
  /\ up = IdleUpload
  /\ mu = IdleMulti
  /\ pair = IdlePair
  /\ zip = IdleZip
  /\ ls = NoListing

NextRange ==
  \/ GetVideo(1, RangeHeaders)
  \/ GetDownload(1, RangeHeaders, DownloadNames)
  \/ StreamOpen(1)
  \/ StreamRead(1)
  \/ StreamEnd(1)
  \/ ReadError(1)
  \/ ClientClose(1)
  \/ DeleteFile(DownloadNames)

vars == <<disk, serverUp, req, del, plan, up, mu, pair, zip, ls>>

SpecRange == InitRange /\ [][NextRange]_vars

\* The Range headers of the concurrent requests: none, a proper range, and a
\* start above the end.
StreamHeaders ==
  {NoRange,
   RangeOf(BytesEq \o <<"0", "-", "1">>),
   RangeOf(BytesEq \o <<"2", "-", "1">>)}

\* MaxReq concurrent requests against a disk that holds both files.
InitStream ==
  /\ disk \in {d \in StartDisks :
                 /\ ExistsSync(d, VideoPath) /\ StatSize(d, VideoPath) = MaxFileSize
                 /\ ExistsSync(d, UploadPath("a")) /\ StatSize(d, UploadPath("a")) = MaxFileSize}
  /\ serverUp = TRUE
  /\ req = [r \in ReqIds |-> NewReq]
  /\ del = NoDelete
  /\ plan = <<>>
  /\ up = IdleUpload
  /\ mu = IdleMulti
  /\ pair = IdlePair
  /\ zip = IdleZip
  /\ ls = NoListing

NextStream ==
  \/ \E r \in 1..MaxReq : GetVideo(r, StreamHeaders)
  \/ \E r \in 1..MaxReq : GetDownload(r, StreamHeaders, {"a"})
  \/ \E r \in 1..MaxReq : StreamOpen(r)
  \/ \E r \in 1..MaxReq : StreamRead(r)
  \/ \E r \in 1..MaxReq : StreamEnd(r)
  \/ \E r \in 1..MaxReq : ReadError(r)
  \/ \E r \in 1..MaxReq : ClientClose(r)
  \/ DeleteFile(DownloadNames)

SpecStream == InitStream /\ [][NextStream]_vars

\* ------------------------------------------- a client fetching a file in parts
\* The contiguous ranges that cover offsets s..n-1 with a cut before every
\* offset of cuts.
RECURSIVE RangesFrom(_, _, _)
RangesFrom(s, cuts, n) ==
  IF \A c \in cuts : c <= s THEN <<<<s, n - 1>>>>
  ELSE LET c == CHOOSE x \in cuts : x > s /\ \A y \in cuts : y > s => x <= y
       IN <<<<s, c - 1>>>> \o RangesFrom(c, cuts, n)

\* Every partition of [0, n-1] into contiguous ranges starting at 0.
Partitions(n) == {RangesFrom(0, cuts, n) : cuts \in SUBSET (1..(n - 1))}

\* The client sends its i-th request: the i-th range of its plan.
ClientAsk(i) ==
  /\ i <= Len(plan)
  /\ GetDownload(i, {RangeOf(BytesEq \o NatToStr(plan[i][1]) \o <<"-">>
                               \o NatToStr(plan[i][2]))}, {"a"})

\* The stored file "a" of 1..MaxFileSize bytes, and a client that fetches it
\* by one of its partitions; the file is not touched meanwhile.
InitRoundTrip ==
  /\ \E n \in 1..MaxFileSize :
       /\ disk \in {d \in StartDisks :
                      /\ ~ExistsSync(d, VideoPath)
                      /\ ExistsSync(d, UploadPath("a")) /\ StatSize(d, UploadPath("a")) = n}
       /\ plan \in Partitions(n)
  /\ serverUp = TRUE
  /\ req = [r \in ReqIds |-> NewReq]
  /\ del = NoDelete
  /\ up = IdleUpload
  /\ mu = IdleMulti
  /\ pair = IdlePair
  /\ zip = IdleZip
  /\ ls = NoListing

NextRoundTrip ==
  \/ \E i \in ReqIds : ClientAsk(i)
  \/ \E i \in ReqIds : StreamOpen(i)
  \/ \E i \in ReqIds : StreamRead(i)
  \/ \E i \in ReqIds : StreamEnd(i)

SpecRoundTrip == InitRoundTrip /\ [][NextRoundTrip]_vars

\* ------------------------------------------------------------- POST /upload
\* Largest number of bytes the client sends in a file part.
MaxUpload == 3

\* limits.fileSize of Busboy({...}) and the bound of the size test in the file
\* handler, counted in the bytes of this model (100 * 1024 * 1024 in the source).
FileSizeLimit == 2

\* The filenames a client puts on its file part: empty, blank, with and
\* without an extension.
ClientFilenames == {<<>>, <<" ">>, <<"a", ".", "t">>, <<"n">>}

\* Date.now() and Math.round(Math.random() * 1E9) at the 'file' event.
Timestamps == {1}

RandomSuffixes == {0, 7}

\* String.prototype.trim()
RECURSIVE TrimLeft(_)
TrimLeft(cs) == IF cs # <<>> /\ Head(cs) = " " THEN TrimLeft(Tail(cs)) ELSE cs

RECURSIVE TrimRight(_)
TrimRight(cs) ==
  IF cs # <<>> /\ cs[Len(cs)] = " " THEN TrimRight(SubSeq(cs, 1, Len(cs) - 1)) ELSE cs

Trim(cs) == TrimRight(TrimLeft(cs))

\* The part of a path after its last "/".
RECURSIVE BaseName(_)
BaseName(cs) ==
  IF \A i \in 1..Len(cs) : cs[i] # "/" THEN cs
  ELSE BaseName(Tail2(cs, CHOOSE i \in 1..Len(cs) : cs[i] = "/"))

\* path.extname(): from the last "." of the base name, unless that is its
\* first character.
ExtName(cs) ==
  LET b == BaseName(cs)
      dots == {i \in 1..Len(b) : b[i] = "."}
  IN IF dots = {} THEN <<>>
     ELSE LET k == CHOOSE i \in dots : \A j \in dots : j <= i
          IN IF k = 1 THEN <<>> ELSE SubSeq(b, k, Len(b))

\* `file-${timestamp}-${randomSuffix}${originalExt}`
StoredNameChars(timestamp, randomSuffix, originalExt) ==
  <<"f", "i", "l", "e", "-">> \o NatToStr(timestamp) \o <<"-">> \o NatToStr(randomSuffix)
    \o originalExt

StoredName(timestamp, randomSuffix, originalExt) ==
  StrOf(StoredNameChars(timestamp, randomSuffix, originalExt))

\* res.status(status).json(...) of the upload request: every call is recorded;
\* a call after the first throws ERR_HTTP_HEADERS_SENT.
SendUpload(u, status, msg) ==
  [u EXCEPT !.sent = Append(@, [status |-> status, msg |-> msg]),
            !.uncaught = @ \/ Len(u.sent) > 0]

\* Mutant of RespondOnce: the isResponseSent guard is missing.
RespondUnguarded(u, status, msg) ==
  SendUpload([u EXCEPT !.isResponseSent = TRUE], status, msg)

\* if (!isResponseSent) { isResponseSent = true; res.status(status).json(...) }
RespondOnce(u, status, msg) ==
  IF u.isResponseSent THEN u
  ELSE SendUpload([u EXCEPT !.isResponseSent = TRUE], status, msg)

\* clearTimeout(uploadTimeout)
ClearTimeout(u) == IF u.timer = "armed" THEN [u EXCEPT !.timer = "cleared"] ELSE u

\* uploadError = ...
SetError(u, msg) == [u EXCEPT !.uploadError = msg]

\* The request arrives. Busboy() throws on headers it cannot parse: the outer
\* catch then calls clearTimeout(uploadTimeout), a name of the try block that
\* is not in scope there, and the ReferenceError reaches the error middleware.
UploadStart ==
  /\ serverUp
  /\ up.phase = "idle"
  /\ \E headersOk \in BOOLEAN :
       up' = IF headersOk
               THEN [up EXCEPT !.phase = "running", !.timer = "armed", !.parser = "parsing"]
               ELSE SendUpload([up EXCEPT !.phase = "rejected"], 500, "Something went wrong!")
  /\ UNCHANGED <<disk, serverUp, req, del, plan, mu, pair, zip, ls>>

\* Mutant of UploadTimeout: the timer callback answers without looking at
\* isResponseSent.
UploadTimeoutUnguarded ==
  /\ serverUp
  /\ up.timer = "armed"
  /\ up' = RespondUnguarded([up EXCEPT !.timer = "fired", !.elapsed = TRUE], 408,
                            "Upload timeout - file too large or connection too slow")
  /\ serverUp' = ~up'.uncaught
  /\ UNCHANGED <<disk, req, del, plan, mu, pair, zip, ls>>

\* The 5-minute timer expires.
UploadTimeout ==
  /\ serverUp
  /\ up.timer = "armed"
  /\ up' = RespondOnce([up EXCEPT !.timer = "fired", !.elapsed = TRUE], 408,
                       "Upload timeout - file too large or connection too slow")
  /\ serverUp' = ~up'.uncaught
  /\ UNCHANGED <<disk, req, del, plan, mu, pair, zip, ls>>

\* Five minutes have passed since the request started and clearTimeout was
\* called before: no callback runs.
DeadlinePasses ==
  /\ serverUp
  /\ up.phase = "running"
  /\ up.timer = "cleared"
  /\ ~up.elapsed
  /\ up' = [up EXCEPT !.elapsed = TRUE]
  /\ UNCHANGED <<disk, serverUp, req, del, plan, mu, pair, zip, ls>>

\* Mutant of FileHandler: the filename is tested with !filename only.
FileHandlerNoTrim(u, name, timestamp, randomSuffix) ==
  LET v == [u EXCEPT !.fileSeen = TRUE, !.originalName = name]
  IN IF name = <<>>
       THEN RespondOnce([SetError(v, "Invalid filename") EXCEPT !.fstream = "unread"],
                        400, "Invalid filename")
     ELSE [v EXCEPT !.filename = StoredName(timestamp, randomSuffix, ExtName(name)),
                    !.ws = "writing", !.fstream = "flowing"]

\* busboy.on('file'): fileInfo has no size, so the size test never holds.
FileHandler(u, name, timestamp, randomSuffix) ==
  LET v == [u EXCEPT !.fileSeen = TRUE, !.originalName = name]
  IN IF name = <<>> \/ Trim(name) = <<>>
       THEN RespondOnce([SetError(v, "Invalid filename") EXCEPT !.fstream = "unread"],
                        400, "Invalid filename")
     ELSE [v EXCEPT !.filename = StoredName(timestamp, randomSuffix, ExtName(name)),
                    !.ws = "writing", !.fstream = "flowing"]

\* Busboy meets the file part of the body (limits.files = 1: once at most).
FileEventOf(N) ==
  /\ serverUp
  /\ up.phase = "running"
  /\ up.parser = "parsing"
  /\ ~up.fileSeen
  /\ \E name \in N, t \in Timestamps, x \in RandomSuffixes :
       up' = FileHandler(up, name, t, x)
  /\ serverUp' = ~up'.uncaught
  /\ UNCHANGED <<disk, req, del, plan, mu, pair, zip, ls>>

FileEvent == FileEventOf(ClientFilenames)

\* fs.createWriteStream(filePath): the file is created when the stream opens.
WsOpen ==
  /\ serverUp
  /\ up.ws \in {"writing", "ending"}
  /\ ~up.wsOpened
  /\ up' = [up EXCEPT !.wsOpened = TRUE]
  /\ disk' = [q \in DOMAIN disk \cup {UploadPath(up.filename)} |->
                IF q = UploadPath(up.filename) THEN <<>> ELSE disk[q]]
  /\ UNCHANGED <<serverUp, req, del, plan, mu, pair, zip, ls>>

\* The client sends the next byte of the file part. Busboy pushes it to the
\* file stream, and file.pipe(writeStream) hands it to the write stream, while
\* fewer than limits.fileSize bytes were pushed; every later byte of the part is
\* dropped (the stream's 'limit' event and its truncated flag have no reader).
FileData ==
  /\ serverUp
  /\ up.parser = "parsing"
  /\ up.fstream = "flowing"
  /\ up.partSent < MaxUpload
  /\ IF up.received < FileSizeLimit
       THEN /\ up.ws = "writing"
            /\ up' = [up EXCEPT !.partSent = @ + 1, !.received = @ + 1,
                                !.buffered = Append(@, up.received + 1)]
       ELSE up' = [up EXCEPT !.partSent = @ + 1]
  /\ UNCHANGED <<disk, serverUp, req, del, plan, mu, pair, zip, ls>>

\* The write stream writes its oldest buffered byte to the file (to the
\* unlinked inode when the file was deleted meanwhile).
WsFlush ==
  /\ serverUp
  /\ up.ws \in {"writing", "ending"}
  /\ up.wsOpened
  /\ up.buffered # <<>>
  /\ up' = [up EXCEPT !.buffered = Tail(@)]
  /\ disk' = IF ExistsSync(disk, UploadPath(up.filename))
               THEN [disk EXCEPT ![UploadPath(up.filename)] = Append(@, Head(up.buffered))]
               ELSE disk
  /\ UNCHANGED <<serverUp, req, del, plan, mu, pair, zip, ls>>

\* The file part ends: the pipe calls writeStream.end().
FileEnd ==
  /\ serverUp
  /\ up.parser = "parsing"
  /\ up.fstream = "flowing"
  /\ up' = [up EXCEPT !.fstream = "ended",
                      !.ws = IF @ = "writing" THEN "ending" ELSE @]
  /\ UNCHANGED <<disk, serverUp, req, del, plan, mu, pair, zip, ls>>

\* writeStream.on('finish'): everything is flushed; fs.stat is started.
WsFinish ==
  /\ serverUp
  /\ up.ws = "ending"
  /\ up.wsOpened
  /\ up.buffered = <<>>
  /\ up' = [up EXCEPT !.ws = "finished", !.statPending = TRUE]
  /\ UNCHANGED <<disk, serverUp, req, del, plan, mu, pair, zip, ls>>

\* fs.stat(filePath) runs on the thread pool: the file is looked up when the
\* call is carried out, and the result waits for its callback.
FsStat ==
  /\ serverUp
  /\ up.statPending
  /\ up.statResult = "none"
  /\ LET p == UploadPath(up.filename)
     IN up' = IF ExistsSync(disk, p)
                THEN [up EXCEPT !.statResult = "ok", !.statSize = StatSize(disk, p)]
              ELSE [up EXCEPT !.statResult = "err"]
  /\ UNCHANGED <<disk, serverUp, req, del, plan, mu, pair, zip, ls>>

\* The callback of fs.stat(filePath) in writeStream.on('finish'), with the
\* result of the lookup. metaOk says whether fs.writeFileSync of the sidecar
\* succeeds; when it throws, the exception is uncaught.
StatCallback ==
  /\ serverUp
  /\ up.statPending
  /\ up.statResult # "none"
  /\ LET p == UploadPath(up.filename)
         u == [up EXCEPT !.statPending = FALSE]
     IN IF up.statResult = "err"
          THEN /\ up' = RespondOnce(SetError(ClearTimeout(u), "Failed to get file info"),
                                    500, "Upload failed: Failed to get file info")
               /\ disk' = disk
          ELSE \E metaOk \in BOOLEAN :
                 LET v == [u EXCEPT !.uploadedFile =
                             [set |-> TRUE, filename |-> up.filename,
                              originalName |-> up.originalName,
                              size |-> up.statSize]]
                 IN IF metaOk
                      THEN /\ up' = v
                           /\ disk' = [q \in DOMAIN disk \cup {MetaPath(p)} |->
                                         IF q = MetaPath(p) THEN up.originalName ELSE disk[q]]
                      ELSE /\ up' = [v EXCEPT !.uncaught = TRUE]
                           /\ disk' = disk
  /\ serverUp' = ~up'.uncaught
  /\ UNCHANGED <<req, del, plan, mu, pair, zip, ls>>

\* writeStream.on('error'): the write stream fails (it is destroyed, the pipe
\* stops reading the part).
WsError ==
  /\ serverUp
  /\ up.ws \in {"writing", "ending"}
  /\ LET p == UploadPath(up.filename)
         u == [up EXCEPT !.ws = "errored", !.buffered = <<>>,
                         !.fstream = IF @ = "flowing" THEN "unread" ELSE @]
     IN /\ up' = RespondOnce(SetError(ClearTimeout(u), "write failed"),
                             500, "Upload failed: write failed")
        /\ disk' = IF ExistsSync(disk, p) THEN Unlink(disk, p) ELSE disk
  /\ serverUp' = ~up'.uncaught
  /\ UNCHANGED <<req, del, plan, mu, pair, zip, ls>>

\* file.on('error'): the part breaks off; writeStream.destroy().
FileError ==
  /\ serverUp
  /\ up.fstream = "flowing"
  /\ LET u == [up EXCEPT !.fstream = "errored", !.buffered = <<>>,
                         !.ws = IF @ \in {"writing", "ending"} THEN "destroyed" ELSE @]
     IN up' = RespondOnce(SetError(ClearTimeout(u), "Unexpected end of form"),
                          500, "Upload failed: Unexpected end of form")
  /\ serverUp' = ~up'.uncaught
  /\ UNCHANGED <<disk, req, del, plan, mu, pair, zip, ls>>

\* busboy.on('finish'): the body is parsed and its file part, if any, was read
\* to its end; the 100 ms timer is started.
BusboyFinish ==
  /\ serverUp
  /\ up.parser = "parsing"
  /\ up.fstream \in {"none", "ended"}
  /\ up' = [ClearTimeout(up) EXCEPT !.parser = "finished", !.delayPending = TRUE]
  /\ UNCHANGED <<disk, serverUp, req, del, plan, mu, pair, zip, ls>>

\* Mutant of DelayedCheckResult: success does not wait for uploadedFile.
DelayedCheckNoWait(u) ==
  IF u.uploadError # "" THEN RespondOnce(u, 500, "Upload failed: " \o u.uploadError)
  ELSE RespondOnce(u, 200, "File uploaded successfully")

\* The callback of the 100 ms timer of busboy.on('finish').
DelayedCheckResult(u) ==
  IF u.uploadError # "" THEN RespondOnce(u, 500, "Upload failed: " \o u.uploadError)
  ELSE IF ~u.uploadedFile.set THEN RespondOnce(u, 400, "No file uploaded")
  ELSE RespondOnce(u, 200, "File uploaded successfully")

DelayedCheck ==
  /\ serverUp
  /\ up.delayPending
  /\ up' = DelayedCheckResult([up EXCEPT !.delayPending = FALSE])
  /\ serverUp' = ~up'.uncaught
  /\ UNCHANGED <<disk, req, del, plan, mu, pair, zip, ls>>

\* busboy.on('error'): the body is malformed or ends early.
BusboyError ==
  /\ serverUp
  /\ up.parser \in {"parsing", "errored"}
  /\ up' = RespondOnce([ClearTimeout(up) EXCEPT !.parser = "errored"],
                       500, "Upload processing failed")
  /\ serverUp' = ~up'.uncaught
  /\ UNCHANGED <<disk, req, del, plan, mu, pair, zip, ls>>

\* req.on('error'): the connection fails.
ReqError ==
  /\ serverUp
  /\ up.phase = "running"
  /\ up' = RespondOnce(ClearTimeout(up), 500, "Upload failed")
  /\ serverUp' = ~up'.uncaught
  /\ UNCHANGED <<disk, req, del, plan, mu, pair, zip, ls>>

\* The stored name of the upload, once it has one.
UploadedNames == IF up.filename = "" THEN {} ELSE {up.filename}

\* One POST /upload request on an empty uploads directory, with every order of
\* its events and a DELETE of the file it stores.
InitUpload ==
  /\ disk = [q \in {} |-> <<>>]
  /\ serverUp = TRUE
  /\ req = [r \in ReqIds |-> NewReq]
  /\ del = NoDelete
  /\ plan = <<>>
  /\ up = IdleUpload
  /\ mu = IdleMulti
  /\ pair = IdlePair
  /\ zip = IdleZip
  /\ ls = NoListing

NextUpload ==
  \/ UploadStart
  \/ UploadTimeout
  \/ DeadlinePasses
  \/ FileEvent
  \/ WsOpen
  \/ FileData
  \/ WsFlush
  \/ FileEnd
  \/ WsFinish
  \/ FsStat
  \/ StatCallback
  \/ WsError
  \/ FileError
  \/ BusboyFinish
  \/ DelayedCheck
  \/ BusboyError
  \/ ReqError
  \/ DeleteFile(UploadedNames)

SpecUpload == InitUpload /\ [][NextUpload]_vars

\* ---------------------------------------------------- POST /upload-multiple
\* Largest number of file parts in one request.
MaxParts == 2

\* `${filename}` of the third argument of the 'file' event, the info object.
ObjectToString == "[object Object]"

\* `file-${timestamp}-${randomSuffix}-${filename}`
UniqueFilename(timestamp, randomSuffix) ==
  "file-" \o StrOf(NatToStr(timestamp)) \o "-" \o StrOf(NatToStr(randomSuffix))
    \o "-" \o ObjectToString

\* res.json(...) / res.status(500).json(...) of the request: every call is
\* recorded; a call after the first throws ERR_HTTP_HEADERS_SENT.
SendMulti(m, status, files) ==
  [m EXCEPT !.sent = Append(@, [status |-> status, count |-> Len(files), files |-> files]),
            !.uncaught = @ \/ Len(m.sent) > 0]

\* The request arrives; Busboy() throws on headers it cannot parse.
MultiStart ==
  /\ serverUp
  /\ mu.phase = "idle"
  /\ \E headersOk \in BOOLEAN :
       mu' = IF headersOk THEN [mu EXCEPT !.phase = "running", !.parser = "parsing"]
             ELSE SendMulti([mu EXCEPT !.phase = "rejected"], 500, <<>>)
  /\ UNCHANGED <<disk, serverUp, req, del, plan, up, pair, zip, ls>>

\* busboy.on('file'): the parts of a body come one after the other.
MultiFile ==
  /\ serverUp
  /\ mu.parser = "parsing"
  /\ Len(mu.parts) < MaxParts
  /\ \A i \in 1..Len(mu.parts) : mu.parts[i].read
  /\ \E t \in Timestamps, x \in RandomSuffixes :
       mu' = [mu EXCEPT !.parts = Append(@, [filename |-> UniqueFilename(t, x),
                                             st |-> "opening", read |-> FALSE])]
  /\ UNCHANGED <<disk, serverUp, req, del, plan, up, pair, zip, ls>>

\* The write stream of part i opens: its file is created.
MultiWsOpen(i) ==
  /\ serverUp
  /\ mu.parts[i].st = "opening"
  /\ mu' = [mu EXCEPT !.parts[i].st = "writing"]
  /\ disk' = [q \in DOMAIN disk \cup {UploadPath(mu.parts[i].filename)} |->
                IF q = UploadPath(mu.parts[i].filename) THEN <<>> ELSE disk[q]]
  /\ UNCHANGED <<serverUp, req, del, plan, up, pair, zip, ls>>

\* Part i ends: the pipe calls writeStream.end().
MultiPartEnd(i) ==
  /\ serverUp
  /\ mu.parser = "parsing"
  /\ mu.parts[i].st = "writing"
  /\ ~mu.parts[i].read
  /\ mu' = [mu EXCEPT !.parts[i].st = "ending", !.parts[i].read = TRUE]
  /\ UNCHANGED <<disk, serverUp, req, del, plan, up, pair, zip, ls>>

\* writeStream.on('finish') of part i: its byte is on the disk; fs.stat starts.
MultiWsFinish(i) ==
  /\ serverUp
  /\ mu.parts[i].st = "ending"
  /\ mu' = [mu EXCEPT !.parts[i].st = "stat"]
  /\ disk' = IF ExistsSync(disk, UploadPath(mu.parts[i].filename))
               THEN [disk EXCEPT ![UploadPath(mu.parts[i].filename)] = Append(@, i)]
               ELSE disk
  /\ UNCHANGED <<serverUp, req, del, plan, up, pair, zip, ls>>

\* The callback of fs.stat of part i.
MultiStatCallback(i) ==
  /\ serverUp
  /\ mu.parts[i].st = "stat"
  /\ LET p == UploadPath(mu.parts[i].filename)
     IN mu' = IF ExistsSync(disk, p)
                THEN [mu EXCEPT !.parts[i].st = "done",
                                !.uploadedFiles =
                                   Append(@, [filename |-> mu.parts[i].filename,
                                              size |-> StatSize(disk, p)]),
                                !.fileCount = @ + 1]
              ELSE [mu EXCEPT !.parts[i].st = "nostat"]
  /\ UNCHANGED <<disk, serverUp, req, del, plan, up, pair, zip, ls>>

\* writeStream.on('error') of part i: the partial file is removed.
MultiWsError(i) ==
  /\ serverUp
  /\ mu.parts[i].st \in {"opening", "writing", "ending"}
  /\ mu' = [mu EXCEPT !.parts[i].st = "failed"]
  /\ disk' = IF ExistsSync(disk, UploadPath(mu.parts[i].filename))
               THEN Unlink(disk, UploadPath(mu.parts[i].filename))
               ELSE disk
  /\ UNCHANGED <<serverUp, req, del, plan, up, pair, zip, ls>>

\* busboy.on('finish'): every part was read to its end; the response is sent.
MultiFinishHandler(m) == SendMulti([m EXCEPT !.parser = "finished"], 200, m.uploadedFiles)

MultiFinish ==
  /\ serverUp
  /\ mu.parser = "parsing"
  /\ \A i \in 1..Len(mu.parts) : mu.parts[i].read
  /\ mu' = MultiFinishHandler(mu)
  /\ serverUp' = ~mu'.uncaught
  /\ UNCHANGED <<disk, req, del, plan, up, pair, zip, ls>>

\* busboy.on('error')
MultiBusboyError ==
  /\ serverUp
  /\ mu.parser = "parsing"
  /\ mu' = SendMulti([mu EXCEPT !.parser = "errored"], 500, <<>>)
  /\ serverUp' = ~mu'.uncaught
  /\ UNCHANGED <<disk, req, del, plan, up, pair, zip, ls>>

MultiNames == {mu.parts[i].filename : i \in 1..Len(mu.parts)}

\* One POST /upload-multiple request on an empty uploads directory, with a
\* DELETE of the files it stores.
InitUploadMultiple ==
  /\ disk = [q \in {} |-> <<>>]
  /\ serverUp = TRUE
  /\ req = [r \in ReqIds |-> NewReq]
  /\ del = NoDelete
  /\ plan = <<>>
  /\ up = IdleUpload
  /\ mu = IdleMulti
  /\ pair = IdlePair
  /\ zip = IdleZip
  /\ ls = NoListing

NextUploadMultiple ==
  \/ MultiStart
  \/ MultiFile
  \/ \E i \in 1..Len(mu.parts) : MultiWsOpen(i)
  \/ \E i \in 1..Len(mu.parts) : MultiPartEnd(i)
  \/ \E i \in 1..Len(mu.parts) : MultiWsFinish(i)
  \/ \E i \in 1..Len(mu.parts) : MultiStatCallback(i)
  \/ \E i \in 1..Len(mu.parts) : MultiWsError(i)
  \/ MultiFinish
  \/ MultiBusboyError
  \/ DeleteFile(MultiNames)

SpecUploadMultiple == InitUploadMultiple /\ [][NextUploadMultiple]_vars

\* ===================================================== claims: range requests
\* The decimal text a client writes for a number below 100.
Dec(n) ==
  IF n < 10 THEN <<DigitChars[n + 1]>>
  ELSE <<DigitChars[(n \div 10) + 1], DigitChars[(n % 10) + 1]>>

\* Range: bytes=<s>-<e>
HeaderSE(s, e) == RangeOf(BytesEq \o Dec(s) \o <<"-">> \o Dec(e))

\* Range: bytes=<s>-
HeaderS(s) == RangeOf(BytesEq \o Dec(s) \o <<"-">>)

\* The numbers a client writes in a Range header.
HeaderNums == (0..MaxFileSize) \cup {10}

\* Bytes s..e of the start-up file at path p (byte i of the video is 10 + i,
\* byte i of the stored file is 20 + i).
FileSlice(p, s, e) ==
  [i \in 1..(e - s + 1) |-> (IF p = VideoPath THEN 10 ELSE 20) + s + i - 1]

\* The step in which request 1 is dispatched to its handler.
Dispatched == req[1].phase = "new" /\ req'[1].phase # "new"

\* The file request 1 asks for exists when the request is dispatched.
TargetExists == req'[1].path \in DOMAIN disk

TargetSize == Len(disk[req'[1].path])

C1Headers ==
  \A s \in HeaderNums, e \in HeaderNums :
    (/\ Dispatched
     /\ TargetExists
     /\ req'[1].range = HeaderSE(s, e)
     /\ s <= e
     /\ e < TargetSize)
    => /\ req'[1].status = 206
       /\ req'[1].statusLines = 1
       /\ req'[1].hdr.contentRange =
            BytesSp \o Dec(s) \o <<"-">> \o Dec(e) \o <<"/">> \o Dec(TargetSize)
       /\ req'[1].hdr.contentLength = Dec(e - s + 1)
       /\ req'[1].phase = "piping"

C1Body ==
  \A s \in HeaderNums, e \in HeaderNums :
    (req[1].status = 206 /\ req[1].range = HeaderSE(s, e) /\ s <= e)
    => /\ IsPrefix(req[1].body, FileSlice(req[1].path, s, e))
       /\ req[1].phase = "ended" => req[1].body = FileSlice(req[1].path, s, e)

\* C1: a request with Range bytes=<start>-<end>, 0 <= start <= end < totalSize,
\* on an existing file is answered 206 with Content-Range
\* bytes start-end/totalSize and Content-Length end-start+1; the body sent so
\* far is always a prefix of bytes start..end of the file (offset order, no gap,
\* no duplicate) and is exactly those bytes when the stream has ended.
C1_RangeServed == [][C1Headers /\ C1Body']_vars

C1_Witness ==
  /\ req[1].status = 206
  /\ req[1].phase = "ended"
  /\ req[1].range = HeaderSE(1, 2)
  /\ req[1].body = FileSlice(req[1].path, 1, 2)

C2Headers ==
  \A s \in HeaderNums, e \in HeaderNums :
    (/\ Dispatched
     /\ TargetExists
     /\ \/ req'[1].range = HeaderSE(s, e) /\ (s >= TargetSize \/ e >= TargetSize)
        \/ req'[1].range = HeaderS(s) /\ (s >= TargetSize \/ TargetSize = 0))
    => /\ req'[1].status = 416
       /\ req'[1].statusLines = 1

C2NoStream ==
  req[1].status = 416
    => /\ req[1].rs.state = "none"
       /\ req[1].body = <<>>
       /\ req[1].phase = "answered"

\* C2: a ranged request whose start or end is at or beyond totalSize (any range
\* on an empty file included) is answered 416, and a request answered 416 never
\* has a read stream and never sends a byte of the file.
C2_RangeNotSatisfiable == [][C2Headers /\ C2NoStream']_vars

C2_Witness ==
  /\ req[1].status = 416
  /\ req[1].range = HeaderSE(0, MaxFileSize)
  /\ req[1].route = "download"

\* C3: a ranged request with start > end is answered 416 (or 404 when the file
\* is missing), never 206 and never 500, and no byte is streamed.
C3_StartAfterEndRejected ==
  \A s \in HeaderNums, e \in HeaderNums :
    (req[1].phase # "new" /\ req[1].range = HeaderSE(s, e) /\ s > e)
    => /\ req[1].status \in {404, 416}
       /\ req[1].body = <<>>

C4Headers ==
  (Dispatched /\ TargetExists /\ req'[1].range = NoRange)
    => /\ req'[1].status = 200
       /\ req'[1].statusLines = 1
       /\ req'[1].hdr.contentLength = Dec(TargetSize)
       /\ req'[1].hdr.acceptRanges = "bytes"
       /\ req'[1].phase = "piping"

C4Body ==
  req[1].status = 200
    => \E n \in 0..MaxFileSize :
         /\ req[1].hdr.contentLength = Dec(n)
         /\ IsPrefix(req[1].body, FileSlice(req[1].path, 0, n - 1))
         /\ req[1].phase = "ended" => req[1].body = FileSlice(req[1].path, 0, n - 1)

\* C4: a request without a Range header on an existing file is answered 200
\* with Content-Length = the file's size and Accept-Ranges: bytes; the body is
\* always a prefix of the file and is the whole file when the stream has ended.
C4_WholeFile == [][C4Headers /\ C4Body']_vars

C4_Witness ==
  /\ req[1].status = 200
  /\ req[1].phase = "ended"
  /\ req[1].range = NoRange
  /\ Len(req[1].body) = MaxFileSize

C6Headers ==
  (Dispatched /\ ~TargetExists /\ req'[1].route \in {"video", "download"})
    => /\ req'[1].status = 404
       /\ req'[1].statusLines = 1

C6NoStream ==
  req[1].status = 404
    => /\ req[1].phase = "answered"
       /\ req[1].rs.state = "none"
       /\ req[1].hdr = NoHeaders
       /\ req[1].body = <<>>
       /\ req[1].statusLines = 1

\* C6: when the target file does not exist at dispatch the response is 404,
\* with or without a Range header, and a request answered 404 has no read
\* stream, no 200/206 header and no body.
C6_MissingFile404 == [][C6Headers /\ C6NoStream']_vars

C6_Witness ==
  /\ req[1].status = 404
  /\ req[1].route = "video"
  /\ req[1].range = HeaderSE(0, 1)

\* ============================================= claims: failures while streaming
\* C7: a 200/206 stream that fails (file gone, read error, client gone) ends
\* torn down with its read stream closed, exactly one status line and no JSON
\* body; the process stays up and the next request can still be dispatched.
C7_StreamFailureContained ==
  /\ serverUp
  /\ \A r \in 1..MaxReq :
       /\ req[r].statusLines <= 1
       /\ req[r].phase = "torn"
            => /\ req[r].rs.state = "closed"
               /\ req[r].status \in {200, 206}
               /\ req[r].json = ""
               /\ (r < MaxReq /\ req[r + 1].phase = "new")
                    => ENABLED GetVideo(r + 1, StreamHeaders)

C7_Witness ==
  /\ req[1].phase = "torn"
  /\ req[1].status = 206
  /\ req[1].body # <<>>
  /\ UploadPath("a") \notin DOMAIN disk
  /\ req[2].phase = "piping"

\* ================================================== claims: partition round trip
RECURSIVE ConcatBodies(_)
ConcatBodies(k) == IF k = 0 THEN <<>> ELSE ConcatBodies(k - 1) \o req[k].body

\* C5: when every range of a contiguous partition of [0, totalSize-1] has been
\* requested and every stream has ended, each response is a 206 and the bodies
\* concatenated in order are exactly the file.
C5_PartitionRoundTrip ==
  (plan # <<>> /\ \A i \in 1..Len(plan) : req[i].phase = "ended")
    => /\ \A i \in 1..Len(plan) : req[i].status = 206
       /\ ConcatBodies(Len(plan)) = disk[UploadPath("a")]

C5_Witness ==
  /\ Len(plan) = MaxFileSize
  /\ \A i \in 1..Len(plan) : req[i].phase = "ended"
  /\ ConcatBodies(Len(plan)) = disk[UploadPath("a")]

\* ============================================================ claims: uploads
\* C8: whatever events fire for a POST /upload request, in whatever order and
\* however often, res.json() is called at most once for it.
C8_SingleResponse == Len(up.sent) <= 1

C8_Witness ==
  /\ Len(up.sent) = 1
  /\ up.sent[1].status = 408
  /\ up.parser = "errored"
  /\ up.fstream = "errored"
  /\ ~up.delayPending

\* The success response of POST /upload has been sent.
UploadSucceeded == \E i \in 1..Len(up.sent) : up.sent[i].status = 200

\* C9: success is sent only after the write stream finished (nothing buffered,
\* every received byte written), its stat callback ran and the sidecar was
\* written.
C9_SuccessAfterFinish ==
  UploadSucceeded
    => /\ up.ws = "finished"
       /\ up.buffered = <<>>
       /\ ~up.statPending
       /\ up.uploadedFile.set
       /\ up.uploadedFile.size = up.received
       /\ ExistsSync(disk, UploadPath(up.filename))
            => /\ disk[UploadPath(up.filename)] = [i \in 1..up.received |-> i]
               /\ ExistsSync(disk, MetaPath(UploadPath(up.filename)))

C9_Witness ==
  /\ UploadSucceeded
  /\ up.received = FileSizeLimit
  /\ ExistsSync(disk, UploadPath(up.filename))

\* The success response of POST /upload-multiple has been sent.
MultiSucceeded == \E k \in 1..Len(mu.sent) : mu.sent[k].status = 200

\* C10: the success response of POST /upload-multiple is sent only when no
\* part has its write-stream 'finish' or its stat callback pending, and its
\* list and count hold every part that is stored.
C10_SuccessAfterAllWrites ==
  MultiSucceeded
    => \A i \in 1..Len(mu.parts) :
         /\ mu.parts[i].st \notin {"opening", "writing", "ending", "stat"}
         /\ mu.parts[i].st = "done"
              => \E k \in 1..Len(mu.sent) :
                   /\ mu.sent[k].count >= 1
                   /\ \E j \in 1..Len(mu.sent[k].files) :
                        mu.sent[k].files[j].filename = mu.parts[i].filename

\* ------------------------------------------------------------------ C11
\* The response sequence s is the single 408 of the timer.
OnlyTimeout(s) == Len(s) = 1 /\ s[1].status = 408

HasTimeout(s) == \E i \in 1..Len(s) : s[i].status = 408

\* C11 as stated: when five minutes have passed since the start of POST /upload
\* and no response was sent before, the 408 is sent; a 408 is the only response
\* of its request (none before it, none after it, no second 408).
C11_TimeoutAtFiveMinutes ==
  [][/\ (~up.elapsed /\ up'.elapsed /\ up.sent = <<>>) => OnlyTimeout(up'.sent)
     /\ HasTimeout(up'.sent) => OnlyTimeout(up'.sent)]_vars

\* C11, amended: when five minutes have passed while the timer is still armed
\* (neither busboy 'finish' nor an error handler has called clearTimeout) and
\* no response was sent before, the 408 is sent; the callback of the timer sends
\* nothing when a response was sent before; a 408 comes from the timer only and
\* is the only response of its request.
C11_TimeoutWhileArmed ==
  [][/\ (up.timer = "armed" /\ ~up.elapsed /\ up'.elapsed)
          => /\ up'.timer = "fired"
             /\ IF up.sent = <<>> THEN OnlyTimeout(up'.sent) ELSE up'.sent = up.sent
     /\ HasTimeout(up'.sent) => (OnlyTimeout(up'.sent) /\ up'.timer = "fired")]_vars

\* The timer answered 408 and the events that came after it (the end of the
\* part, busboy 'finish', the 100 ms check) added no response.
C11_Witness ==
  /\ OnlyTimeout(up.sent)
  /\ up.timer = "fired"
  /\ up.parser = "finished"
  /\ ~up.delayPending
  /\ up.uploadedFile.set

\* ------------------------------------------------------------------ C12
\* C12: a file part of exactly limits.fileSize bytes that is answered with
\* success is stored in full; a file part of more bytes is never answered with
\* success, every answer it gets is a 4xx or 5xx error, and once its write
\* stream is done no file of it (truncated or not) is left in uploads.
C12_SizeLimitEnforced ==
  /\ (UploadSucceeded /\ up.partSent = FileSizeLimit
        /\ ExistsSync(disk, UploadPath(up.filename)))
       => disk[UploadPath(up.filename)] = [i \in 1..FileSizeLimit |-> i]
  /\ up.partSent > FileSizeLimit
       => /\ ~UploadSucceeded
          /\ \A i \in 1..Len(up.sent) : up.sent[i].status >= 400
          /\ (up.ws = "finished" /\ ~up.statPending)
               => ~ExistsSync(disk, UploadPath(up.filename))

\* ------------------------------------------- two uploads of one original name
\* The filename both clients put on their file part.
PairOriginalName == <<"a", ".", "t">>

PairRoutes == {"upload", "upload-multiple"}

\* The bytes of the file part of request i.
PairBody(i) == Content(100 * i, FileSizeLimit)

\* The name the file handler of the route builds from Date.now() and
\* Math.round(Math.random() * 1E9).
PairName(route, timestamp, randomSuffix) ==
  IF route = "upload"
    THEN StoredName(timestamp, randomSuffix, ExtName(PairOriginalName))
    ELSE UniqueFilename(timestamp, randomSuffix)

\* A write of byte b at offset k - 1 of a file (a gap is filled with zeros).
WriteAt(bytes, k, b) ==
  [j \in 1..(IF Len(bytes) >= k THEN Len(bytes) ELSE k) |->
     IF j = k THEN b ELSE IF j <= Len(bytes) THEN bytes[j] ELSE 0]

\* busboy.on('file') of request i: the name is built and
\* fs.createWriteStream(filePath) is called.
PairFile(i) ==
  /\ serverUp
  /\ pair[i].phase = "idle"
  /\ \E route \in PairRoutes, t \in Timestamps, x \in RandomSuffixes :
       pair' = [pair EXCEPT ![i] = [@ EXCEPT !.phase = "named", !.route = route,
                                             !.filename = PairName(route, t, x)]]
  /\ UNCHANGED <<disk, serverUp, req, del, plan, up, mu, zip, ls>>

\* The write stream of request i opens its file with flag 'w': the file is
\* created, or cut to no bytes when it exists.
PairOpen(i) ==
  /\ serverUp
  /\ pair[i].phase = "named"
  /\ pair' = [pair EXCEPT ![i].phase = "open"]
  /\ disk' = [q \in DOMAIN disk \cup {UploadPath(pair[i].filename)} |->
                IF q = UploadPath(pair[i].filename) THEN <<>> ELSE disk[q]]
  /\ UNCHANGED <<serverUp, req, del, plan, up, mu, zip, ls>>

\* The write stream of request i writes its next byte at its own file offset.
PairWrite(i) ==
  /\ serverUp
  /\ pair[i].phase = "open"
  /\ pair[i].written < Len(PairBody(i))
  /\ pair' = [pair EXCEPT ![i].written = @ + 1]
  /\ disk' = [disk EXCEPT ![UploadPath(pair[i].filename)] =
                WriteAt(@, pair[i].written + 1, PairBody(i)[pair[i].written + 1])]
  /\ UNCHANGED <<serverUp, req, del, plan, up, mu, zip, ls>>

\* writeStream.on('finish') of request i: the file is recorded as uploaded.
PairFinish(i) ==
  /\ serverUp
  /\ pair[i].phase = "open"
  /\ pair[i].written = Len(PairBody(i))
  /\ pair' = [pair EXCEPT ![i].phase = "finished"]
  /\ UNCHANGED <<disk, serverUp, req, del, plan, up, mu, zip, ls>>

\* Two requests with the same original name on an empty uploads directory,
\* with every order of their file events and writes.
InitUploadPair ==
  /\ disk = [q \in {} |-> <<>>]
  /\ serverUp = TRUE
  /\ req = [r \in ReqIds |-> NewReq]
  /\ del = NoDelete
  /\ plan = <<>>
  /\ up = IdleUpload
  /\ mu = IdleMulti
  /\ pair = IdlePair
  /\ zip = IdleZip
  /\ ls = NoListing

NextUploadPair ==
  \/ \E i \in 1..2 : PairFile(i)
  \/ \E i \in 1..2 : PairOpen(i)
  \/ \E i \in 1..2 : PairWrite(i)
  \/ \E i \in 1..2 : PairFinish(i)

SpecUploadPair == InitUploadPair /\ [][NextUploadPair]_vars

\* ------------------------------------------------------------------ C13
\* C13: when two concurrent uploads of the same original name have both
\* finished, their stored names differ and each stored file holds the bytes of
\* its own request.
C13_DistinctStoredFiles ==
  (pair[1].phase = "finished" /\ pair[2].phase = "finished")
    => /\ pair[1].filename # pair[2].filename
       /\ \A i \in 1..2 : disk[UploadPath(pair[i].filename)] = PairBody(i)

\* ------------------------------------------------------------------ C14
\* The file part seen by POST /upload has an empty or whitespace-only filename.
BlankFilenameSeen == up.fileSeen /\ Trim(up.originalName) = <<>>

\* C14: the file event of a part whose filename is empty or blank answers
\* 400 "Invalid filename" when the request was not answered before, and creates
\* nothing; from then on the request has no stored name, uploads stays empty
\* and success is never sent.
C14_BlankFilenameRejected ==
  [][/\ (~up.fileSeen /\ BlankFilenameSeen')
          => /\ up.sent = <<>>
                  => up'.sent = <<[status |-> 400, msg |-> "Invalid filename"]>>
             /\ up.sent # <<>> => up'.sent = up.sent
             /\ disk' = disk
     /\ BlankFilenameSeen'
          => /\ up'.filename = ""
             /\ ~up'.wsOpened
             /\ DOMAIN disk' = {}
             /\ ~UploadSucceeded']_vars

\* A blank filename was answered 400 and the timer expired afterwards without
\* a second response.
C14_Witness ==
  /\ BlankFilenameSeen
  /\ up.originalName = <<" ">>
  /\ up.sent = <<[status |-> 400, msg |-> "Invalid filename"]>>
  /\ up.timer = "fired"
  /\ DOMAIN disk = {}

\* ------------------------------------------------------- POST /download-zip
\* Longest list of names a client sends, next to the lists built around the
\* ceiling of the handler.
MaxZipList == 3

\* if (filenames.length > 100)
MaxZipFiles == 100

ZipNames == {"a", "b", "zz"}

\* n names: "zz" (never stored) repeated, then the names of tail.
Padded(n, tail) ==
  [i \in 1..n |-> IF i <= n - Len(tail) THEN "zz" ELSE tail[i - (n - Len(tail))]]

ZipLists ==
  UNION {[1..n -> ZipNames] : n \in 0..MaxZipList}
    \cup {Padded(n, tail) : n \in {MaxZipFiles, MaxZipFiles + 1},
                            tail \in {<<>>, <<"a">>, <<"b", "a">>}}

\* req.body of the request: without filenames, with a filenames that is a
\* string, with an array that holds a number, with an array of names.
ZipBodies ==
  {[kind |-> k, list |-> <<>>] : k \in {"missing", "string", "numbers"}}
    \cup {[kind |-> "array", list |-> l] : l \in ZipLists}

\* The uploads directories the request can meet.
ZipDisks ==
  {[q \in S |-> IF q = UploadPath("a") THEN Content(20, 1) ELSE Content(30, 2)] :
     S \in SUBSET {UploadPath("a"), UploadPath("b")}}

\* Mutant of ValidFiles: each valid file is put in front of the earlier ones.
ValidFilesUnshift(d, filenames) ==
  LET kept == SelectSeq(filenames, LAMBDA filename : ExistsSync(d, UploadPath(filename)))
  IN [i \in 1..Len(kept) |-> kept[Len(kept) + 1 - i]]

\* for (const filename of filenames) if (fs.existsSync(filePath)) validFiles.push(...)
ValidFiles(d, filenames) ==
  SelectSeq(filenames, LAMBDA filename : ExistsSync(d, UploadPath(filename)))

ZipHeaders ==
  [contentType |-> "application/zip",
   disposition |-> "attachment; filename=\"downloads.zip\"",
   contentLength |-> "0"]

\* Mutant of ZipHandler: the ceiling test is > 100 names that exist.
ZipHandlerCountsValid(z, d, body) ==
  IF body.kind \in {"missing", "string"} \/ (body.kind = "array" /\ body.list = <<>>)
    THEN StatusJson(z, 400, "No filenames provided")
  ELSE IF body.kind = "numbers" THEN StatusJson(z, 500, "ZIP creation failed")
  ELSE LET validFiles == ValidFiles(d, body.list)
       IN IF Len(validFiles) > MaxZipFiles
            THEN StatusJson(z, 400, "Too many files. Maximum 100 files allowed.")
          ELSE IF Len(validFiles) = 0 THEN StatusJson(z, 404, "No valid files found")
          ELSE [WriteHead(z, 200, ZipHeaders) EXCEPT
                  !.phase = "streaming", !.archive = "open", !.queued = validFiles]

\* The synchronous part of app.post('/download-zip'): the tests of the body,
\* the 200 header, the archive with its handlers, archive.file for every valid
\* file and archive.finalize(). path.join throws on a name that is no string,
\* which the catch of the handler answers.
ZipHandler(z, d, body) ==
  IF body.kind \in {"missing", "string"} \/ (body.kind = "array" /\ body.list = <<>>)
    THEN StatusJson(z, 400, "No filenames provided")
  ELSE IF body.kind = "numbers" THEN StatusJson(z, 500, "ZIP creation failed")
  ELSE IF Len(body.list) > MaxZipFiles
    THEN StatusJson(z, 400, "Too many files. Maximum 100 files allowed.")
  ELSE LET validFiles == ValidFiles(d, body.list)
       IN IF Len(validFiles) = 0 THEN StatusJson(z, 404, "No valid files found")
          ELSE [WriteHead(z, 200, ZipHeaders) EXCEPT
                  !.phase = "streaming", !.archive = "open", !.queued = validFiles]

\* A request arrives at POST /download-zip with one of the bodies B.
PostDownloadZipOf(B) ==
  /\ serverUp
  /\ zip.phase = "idle"
  /\ \E body \in B :
       zip' = ZipHandler([zip EXCEPT !.body = body], disk, body)
  /\ serverUp' = ~zip'.uncaught
  /\ UNCHANGED <<disk, req, del, plan, up, mu, pair, ls>>

PostDownloadZip == PostDownloadZipOf(ZipBodies)

\* archive.on('warning'): ENOENT is logged, anything else is logged and answered.
ArchiveWarning(z, code, name) ==
  IF code = "ENOENT" THEN [z EXCEPT !.warned = Append(@, name)]
  ELSE StatusJson(z, 500, "ZIP creation failed")

\* Mutant of ArchiveError: the handler logs and leaves the response alone.
ArchiveErrorLogsOnly(z) == z

\* archive.on('error')
ArchiveError(z) == StatusJson(z, 500, "ZIP creation failed")

\* The queued files whose stat succeeded.
StatOk(z) == {k \in 1..Len(z.stat) : z.stat[k] = "ok"}

\* The archive stats its next queued file: a file that is gone is reported with
\* an ENOENT 'warning' and left out, another failure of the stat with a
\* 'warning' of its own code.
ZipStat ==
  /\ serverUp
  /\ zip.archive = "open"
  /\ Len(zip.stat) < Len(zip.queued)
  /\ LET name == zip.queued[Len(zip.stat) + 1]
     IN \E fault \in BOOLEAN :
          zip' = IF fault
                   THEN ArchiveWarning([zip EXCEPT !.stat = Append(@, "failed")],
                                       "EACCES", name)
                 ELSE IF ExistsSync(disk, UploadPath(name))
                   THEN [zip EXCEPT !.stat = Append(@, "ok")]
                 ELSE ArchiveWarning([zip EXCEPT !.stat = Append(@, "missing")],
                                     "ENOENT", name)
  /\ serverUp' = ~zip'.uncaught
  /\ UNCHANGED <<disk, req, del, plan, up, mu, pair, ls>>

\* The archive reads and compresses the next file whose stat succeeded and
\* writes its entry to the response; a file that has gone since its stat makes
\* the read stream fail, which the archive reports with 'error'.
ZipEntry ==
  /\ serverUp
  /\ zip.archive = "open"
  /\ \E k \in StatOk(zip) :
       /\ Cardinality({j \in StatOk(zip) : j < k}) = Len(zip.entries)
       /\ LET p == UploadPath(zip.queued[k])
          IN zip' = IF ExistsSync(disk, p)
                      THEN [zip EXCEPT !.entries = Append(@, zip.queued[k]),
                                       !.bytesOut = @ + Len(disk[p]) + 1]
                    ELSE ArchiveError(zip)
  /\ serverUp' = ~zip'.uncaught
  /\ UNCHANGED <<disk, req, del, plan, up, mu, pair, ls>>

\* archive.finalize() takes effect once every queued file is handled: the
\* central directory is written and the response ends.
ZipEnd ==
  /\ serverUp
  /\ zip.archive = "open"
  /\ Len(zip.stat) = Len(zip.queued)
  /\ Len(zip.entries) = Cardinality(StatOk(zip))
  /\ zip' = [zip EXCEPT !.archive = "finalized", !.ended = TRUE, !.bytesOut = @ + 1]
  /\ UNCHANGED <<disk, serverUp, req, del, plan, up, mu, pair, ls>>

\* req.on('close') -> archive.destroy(). The request emits 'close' when the
\* client's connection closes and, from Node 16 on, as soon as the request
\* itself is completed (its body was read before the handler ran), with the
\* client still connected.
ZipReqClose ==
  /\ serverUp
  /\ zip.phase = "streaming"
  /\ ~zip.closeSeen
  /\ \E cause \in {"disconnect", "completed"} :
       /\ cause = "completed" => (zip.connected /\ zip.stat = <<>>)
       /\ zip' = [zip EXCEPT !.closeSeen = TRUE, !.archive = "destroyed",
                             !.connected = IF cause = "disconnect" THEN FALSE ELSE @]
  /\ UNCHANGED <<disk, serverUp, req, del, plan, up, mu, pair, ls>>

\* req.on('error') -> archive.destroy(): the connection fails.
ZipReqError ==
  /\ serverUp
  /\ zip.phase = "streaming"
  /\ zip.connected
  /\ ~zip.closeSeen
  /\ zip' = [zip EXCEPT !.connected = FALSE, !.archive = "destroyed"]
  /\ UNCHANGED <<disk, serverUp, req, del, plan, up, mu, pair, ls>>

\* One POST /download-zip request with every body and uploads directory, the
\* steps of its archive, the events of its connection and concurrent DELETEs.
InitZip ==
  /\ disk \in ZipDisks
  /\ serverUp = TRUE
  /\ req = [r \in ReqIds |-> NewReq]
  /\ del = NoDelete
  /\ plan = <<>>
  /\ up = IdleUpload
  /\ mu = IdleMulti
  /\ pair = IdlePair
  /\ zip = IdleZip
  /\ ls = NoListing

NextZip ==
  \/ PostDownloadZip
  \/ ZipStat
  \/ ZipEntry
  \/ ZipEnd
  \/ ZipReqClose
  \/ ZipReqError
  \/ DeleteFile({"a", "b"})

SpecZip == InitZip /\ [][NextZip]_vars

\* ------------------------------------------------------------------ C15
\* The step in which POST /download-zip is handled.
ZipDispatched == zip.phase = "idle" /\ zip'.phase # "idle"

\* The request was answered with the JSON error of the given status: no ZIP
\* header, no archive, nothing queued.
ZipRejected(z, code) ==
  /\ z.phase = "answered"
  /\ z.status = code
  /\ z.statusLines = 1
  /\ z.hdr.contentType = ""
  /\ z.archive = "none"
  /\ z.queued = <<>>
  /\ ~z.uncaught

\* C15: POST /download-zip answers 400 when filenames is missing, not an array
\* or empty, 400 when it holds more than 100 names whether or not any exists,
\* 404 when it holds 1..100 names none of which exists, and accepts 1..100
\* names (100 included) of which one exists; a rejected request never gets an
\* archive, a 200 header or a byte of ZIP.
C15_ZipPreconditions ==
  [][/\ ZipDispatched
          => LET b == zip'.body
                 n == Len(b.list)
                 found == {i \in 1..n : ExistsSync(disk, UploadPath(b.list[i]))}
             IN /\ (b.kind \in {"missing", "string"} \/ (b.kind = "array" /\ n = 0))
                     => ZipRejected(zip', 400)
                /\ (b.kind = "array" /\ n > MaxZipFiles) => ZipRejected(zip', 400)
                /\ (b.kind = "array" /\ n \in 1..MaxZipFiles /\ found = {})
                     => ZipRejected(zip', 404)
                /\ (b.kind = "array" /\ n \in 1..MaxZipFiles /\ found # {})
                     => /\ zip'.status = 200
                        /\ zip'.hdr = ZipHeaders
                        /\ zip'.archive = "open"
     /\ zip'.phase = "answered"
          => (zip'.archive = "none" /\ zip'.bytesOut = 0 /\ zip'.status # 200)]_vars

\* A list of exactly 100 names, one of them stored, was accepted and its
\* archive written to the end.
C15_Witness ==
  /\ Len(zip.body.list) = MaxZipFiles
  /\ zip.status = 200
  /\ zip.entries = <<"a">>
  /\ zip.ended

\* ------------------------------------------------------------------ C16
\* The k-th smallest member of a set of indexes.
KthOf(S, k) == CHOOSE i \in S : Cardinality({j \in S : j < i}) = k - 1

\* The names of list at the indexes S, in the order of list.
NamesAt(list, S) == [k \in 1..Cardinality(S) |-> list[KthOf(S, k)]]

\* C16: a request whose list (of at most 100 names) holds a stored name is
\* answered 200 without an error, and the files handed to the archive are the
\* names of the list that are stored, in the order of the list; the entries the
\* archive has written are, in that order, the first of the handed files whose
\* stat succeeded, and all handed files once the archive ended with every stat
\* successful.
C16_ZipEntriesInOrder ==
  [][/\ ZipDispatched
          => LET b == zip'.body
                 n == Len(b.list)
                 found == {i \in 1..n : ExistsSync(disk, UploadPath(b.list[i]))}
             IN (b.kind = "array" /\ n <= MaxZipFiles /\ found # {})
                  => /\ zip'.status = 200
                     /\ zip'.json = ""
                     /\ ~zip'.uncaught
                     /\ zip'.queued = NamesAt(b.list, found)
     /\ Len(zip'.entries) <= Cardinality(StatOk(zip'))
     /\ zip'.entries = NamesAt(zip'.queued, {KthOf(StatOk(zip'), m) : m \in 1..Len(zip'.entries)})
     /\ (zip'.ended /\ StatOk(zip') = 1..Len(zip'.queued))
          => zip'.entries = zip'.queued]_vars

\* Stored and unknown names mixed: the archive ended with the stored ones in
\* the order of the request.
C16_Witness ==
  /\ zip.body.list = <<"b", "zz", "a">>
  /\ zip.status = 200
  /\ zip.entries = <<"b", "a">>
  /\ zip.ended

\* ------------------------------------------------------------------ C17
\* C17: while the archive of an accepted request meets no failure other than
\* files that are gone (no stat fails for another reason), a file that went
\* after the 200 header is logged and left out, the files after it are still
\* handled, and the response is neither failed nor rewritten: the process stays
\* up, no exception escapes, and the one status line stays the 200.
C17_VanishedFileSkipped ==
  (zip.phase = "streaming" /\ \A k \in 1..Len(zip.stat) : zip.stat[k] # "failed")
    => /\ serverUp
       /\ ~zip.uncaught
       /\ zip.status = 200
       /\ zip.statusLines = 1
       /\ zip.json = ""
       /\ \A k \in 1..Len(zip.stat) :
            zip.stat[k] = "missing"
              => \E w \in 1..Len(zip.warned) : zip.warned[w] = zip.queued[k]

\* ------------------------------------------------------------------ C18
\* C18: once the request has emitted 'close' or 'error' the archive is
\* destroyed, and a destroyed archive reads no further file and writes no
\* further byte; the archive is destroyed only when the client has
\* disconnected.
C18_DestroyOnDisconnectOnly ==
  [][/\ (zip'.closeSeen \/ ~zip'.connected) => zip'.archive = "destroyed"
     /\ zip.archive = "destroyed"
          => /\ zip'.stat = zip.stat
             /\ zip'.entries = zip.entries
             /\ zip'.bytesOut = zip.bytesOut
     /\ zip'.archive = "destroyed" => ~zip'.connected]_vars

\* ------------------------------------------------------------------ C19
\* C19: a JSON error body is written only on a response whose headers are not
\* sent: once the 200 ZIP header is written, no handler of the archive calls
\* res.status(...).json(...) again, so no headers-already-sent exception is
\* raised.
C19_JsonOnlyBeforeHeaders ==
  /\ zip.json # "" => zip.hdr.contentType = ""
  /\ zip.hdr.contentType # "" => ~zip.uncaught

\* ------------------------------------------- GET /files and DELETE /files/:filename
\* Largest number of GET /files requests.
MaxListings == 2

DotMeta == <<".", "m", "e", "t", "a">>

\* Filenames of uploaded parts with an extension, ".meta" among them.
ExtFilenames == {<<"a", ".", "t">>, <<"x">> \o DotMeta}

\* The names POST /upload gives to the files it stores, and their sidecars.
UploadEntryNames ==
  LET S == {StoredNameChars(t, x, ExtName(n)) :
              t \in Timestamps, x \in RandomSuffixes, n \in ClientFilenames \cup ExtFilenames}
  IN S \cup {n \o DotMeta : n \in S}

\* The names a directory entry of uploads can have here, as characters.
DirEntryNames ==
  {<<"a">>, <<"b">>, <<"z", "z">>, <<"a">> \o DotMeta, <<"b">> \o DotMeta}
    \cup UploadEntryNames

\* String.prototype.endsWith
EndsWith(cs, suffix) ==
  /\ Len(cs) >= Len(suffix)
  /\ SubSeq(cs, Len(cs) - Len(suffix) + 1, Len(cs)) = suffix

\* fs.readdirSync(uploadDir)
ReaddirSync(d) == {cs \in DirEntryNames : ExistsSync(d, UploadPath(StrOf(cs)))}

\* app.get("/files"): every directory entry that is no sidecar, with the
\* original name of its sidecar when it has one.
ListHandler(d) ==
  [status |-> 200,
   files |-> {LET filePath == UploadPath(StrOf(cs))
                  metadataPath == MetaPath(filePath)
              IN [filename |-> StrOf(cs),
                  originalName |-> IF ExistsSync(d, metadataPath) /\ d[metadataPath] # <<>>
                                     THEN d[metadataPath] ELSE cs,
                  size |-> StatSize(d, filePath),
                  path |-> "/download/" \o StrOf(cs)] :
                cs \in {c \in ReaddirSync(d) : ~EndsWith(c, DotMeta)}}]

\* A request arrives at GET /files.
ListFiles ==
  /\ serverUp
  /\ ls.count < MaxListings
  /\ ls' = [status |-> ListHandler(disk).status, files |-> ListHandler(disk).files,
            count |-> ls.count + 1]
  /\ UNCHANGED <<disk, serverUp, req, del, plan, up, mu, pair, zip>>

\* Stored file a (of any size, with its sidecar or without) and stored file b
\* (without sidecar), each present or not, and the sidecar of a on its own.
FilesDisks ==
  {[q \in S |-> IF q = UploadPath("a") THEN Content(20, n)
                ELSE IF q = UploadPath("b") THEN Content(30, 1)
                ELSE <<"o">>] :
     n \in 1..MaxFileSize,
     S \in SUBSET {UploadPath("a"), MetaPath(UploadPath("a")), UploadPath("b")}}

\* DELETE /files/:filename and GET /files requests in every order.
InitFiles ==
  /\ disk \in FilesDisks
  /\ serverUp = TRUE
  /\ req = [r \in ReqIds |-> NewReq]
  /\ del = NoDelete
  /\ plan = <<>>
  /\ up = IdleUpload
  /\ mu = IdleMulti
  /\ pair = IdlePair
  /\ zip = IdleZip
  /\ ls = NoListing

NextFiles ==
  \/ DeleteFile({"a", "b", "zz", "a.meta"})
  \/ ListFiles

SpecFiles == InitFiles /\ [][NextFiles]_vars

\* ------------------------------------------------------------------ C20
\* The step in which a DELETE /files/:filename request is handled.
DeleteStep == ls' = ls /\ (del' # del \/ disk' # disk)

DeleteHandlerThrows(d, filename, failing) ==
  LET p == UploadPath(filename)
  IN [disk |-> IF failing = "file" THEN d ELSE Unlink(d, p),
      res |-> [name |-> filename, status |-> 500]]

\* A request arrives at DELETE /files/:filename for one of the stored names of
\* N and one of its unlinkSync calls throws (EPERM, EBUSY, ...).
DeleteFails(N) ==
  /\ serverUp
  /\ \E name \in N, failing \in {"file", "sidecar"} :
       /\ ExistsSync(disk, UploadPath(name))
       /\ failing = "sidecar" => ExistsSync(disk, MetaPath(UploadPath(name)))
       /\ disk' = DeleteHandlerThrows(disk, name, failing).disk
       /\ del' = DeleteHandlerThrows(disk, name, failing).res
  /\ UNCHANGED <<serverUp, req, plan, up, mu, pair, zip, ls>>

\* Uploads directories in which file a, when stored, has its sidecar, and no
\* sidecar is without its file.
InitFilesPaired ==
  /\ disk \in {d \in FilesDisks :
                 ExistsSync(d, UploadPath("a")) <=> ExistsSync(d, MetaPath(UploadPath("a")))}
  /\ serverUp = TRUE
  /\ req = [r \in ReqIds |-> NewReq]
  /\ del = NoDelete
  /\ plan = <<>>
  /\ up = IdleUpload
  /\ mu = IdleMulti
  /\ pair = IdlePair
  /\ zip = IdleZip
  /\ ls = NoListing

\* DELETE /files/:filename requests, failing ones among them, and GET /files
\* requests in every order.
NextFilesFailing ==
  \/ DeleteFile({"a", "b", "zz"})
  \/ DeleteFails({"a", "b"})
  \/ ListFiles

SpecFilesFailing == InitFilesPaired /\ [][NextFilesFailing]_vars

\* ------------------------------------------------------------------ C21
\* C21: whatever DELETE /files/:filename requests came before it (a delete
\* whose removal of the sidecar fails included), the uploads directory a
\* GET /files request reads never holds a record of which a delete removed
\* exactly one of file and sidecar: file a and its sidecar, stored together at
\* the start, are both there or both gone.
C21_NoHalfDeletedListed ==
  [][ls'.count # ls.count
       => (ExistsSync(disk, UploadPath("a"))
             <=> ExistsSync(disk, MetaPath(UploadPath("a"))))]_vars

\* File a and its sidecar are both stored or both gone.
PairedA(d) == ExistsSync(d, UploadPath("a")) <=> ExistsSync(d, MetaPath(UploadPath("a")))

\* What does hold next to C21: a delete that is answered 200 or 404 leaves file a and its
\* sidecar both there or both gone; only the delete of a that is answered 500
\* separates them, and then it is the sidecar that stays. So a GET /files
\* request never reads a directory in which file a is stored without its
\* sidecar, lists a only with the original name of its sidecar, and lists no
\* entry for a once its file is removed.
HalfDeletedOnlyByFailedDelete ==
  [][/\ (PairedA(disk) /\ ~PairedA(disk')) => del' = [name |-> "a", status |-> 500]
     /\ ls'.count # ls.count
          => /\ ExistsSync(disk, UploadPath("a"))
                  => ExistsSync(disk, MetaPath(UploadPath("a")))
             /\ \A e \in ls'.files :
                  e.filename = "a"
                    => (ExistsSync(disk, UploadPath("a")) /\ e.originalName = <<"o">>)]_vars

\* The removal of the sidecar of a failed; a GET /files after it read the
\* directory with the sidecar alone and listed nothing.
HalfDeletedListedEmpty ==
  /\ del = [name |-> "a", status |-> 500]
  /\ ~ExistsSync(disk, UploadPath("a"))
  /\ ExistsSync(disk, MetaPath(UploadPath("a")))
  /\ ls.count > 0
  /\ ls.files = {}

\* ------------------------------------------- filenames that hold separators
\* The filenames clients send in GET /download/:filename (':filename' is
\* URI-decoded by the router, %2F included), in the filenames of
\* POST /download-zip and in DELETE /files/:filename.
TraversalNames == {"a", "zz"} \cup DOMAIN JoinedPaths

\* The files at the start, by their paths relative to __dirname: file a of
\* uploads, file x of the project directory, file y above the project
\* directory.
TraversalFiles ==
  {UploadsDir \o <<"/", "a">>, <<"x">>, <<".", ".", "/", "y">>}

TraversalDisk ==
  [q \in {StrOf(cs) : cs \in TraversalFiles} |->
     IF q = UploadPath("a") THEN Content(20, 1) ELSE Content(40, 2)]

\* The files that are not in the uploads directory.
OutsideUploads ==
  {StrOf(cs) : cs \in {f \in TraversalFiles : ~IsPrefix(UploadsDir \o <<"/">>, f)}}

InitTraversal ==
  /\ disk = TraversalDisk
  /\ serverUp = TRUE
  /\ req = [r \in ReqIds |-> NewReq]
  /\ del = NoDelete
  /\ plan = <<>>
  /\ up = IdleUpload
  /\ mu = IdleMulti
  /\ pair = IdlePair
  /\ zip = IdleZip
  /\ ls = NoListing

\* One download, one ZIP download and deletes with these filenames.
NextTraversal ==
  \/ GetDownload(1, {NoRange}, TraversalNames)
  \/ StreamOpen(1)
  \/ StreamRead(1)
  \/ StreamEnd(1)
  \/ PostDownloadZipOf({[kind |-> "array", list |-> <<n>>] : n \in TraversalNames})
  \/ ZipStat
  \/ ZipEntry
  \/ ZipEnd
  \/ DeleteFile(TraversalNames)

SpecTraversal == InitTraversal /\ [][NextTraversal]_vars

\* ------------------------------------------------------------------ C22
\* C22: whatever filename a client sends, no file outside the uploads
\* directory is deleted or changed, none is opened by a download, and none is
\* handed to the archive of a ZIP download.
C22_FilesInsideUploads ==
  /\ \A p \in OutsideUploads : ExistsSync(disk, p) /\ disk[p] = TraversalDisk[p]
  /\ \A r \in ReqIds : req[r].rs.state # "none" => req[r].path \notin OutsideUploads
  /\ \A k \in 1..Len(zip.queued) : UploadPath(zip.queued[k]) \notin OutsideUploads

\* ------------------------------------------------------------------ C23
C23OpenEnded ==
  \A s \in HeaderNums :
    (/\ Dispatched
     /\ TargetExists
     /\ req'[1].range = HeaderS(s)
     /\ s < TargetSize)
    => /\ req'[1].status = 206
       /\ req'[1].statusLines = 1
       /\ req'[1].hdr.contentRange =
            BytesSp \o Dec(s) \o <<"-">> \o Dec(TargetSize - 1) \o <<"/">> \o Dec(TargetSize)
       /\ req'[1].hdr.contentLength = Dec(TargetSize - s)
       /\ req'[1].rs.from = s
       /\ req'[1].rs.to = TargetSize - 1

C23ZeroZero ==
  (/\ Dispatched
   /\ TargetExists
   /\ req'[1].range = HeaderSE(0, 0)
   /\ TargetSize > 0)
  => /\ req'[1].status = 206
     /\ req'[1].hdr.contentRange = BytesSp \o <<"0", "-", "0", "/">> \o Dec(TargetSize)
     /\ req'[1].hdr.contentLength = <<"1">>
     /\ req'[1].rs.from = 0
     /\ req'[1].rs.to = 0

\* C23: a request with Range bytes=<start>-, 0 <= start < totalSize, on an
\* existing file is answered 206 with Content-Range
\* bytes start-(totalSize-1)/totalSize and Content-Length totalSize-start, its
\* read stream running from start to the last byte; bytes=0-0 is answered 206
\* with Content-Range bytes 0-0/totalSize and Content-Length 1 (end 0, not an
\* open end).
C23_OpenEndedRange == [][C23OpenEnded /\ C23ZeroZero]_vars

C23_Witness ==
  /\ req[1].status = 206
  /\ req[1].range = HeaderS(1)
  /\ req[1].phase = "ended"
  /\ req[1].body = FileSlice(req[1].path, 1, MaxFileSize - 1)

\* ------------------------------------------------------------------ C24
\* The start and end the handler parses out of the Range header of request 1
\* are integers with 0 <= start <= end < totalSize.
C24Mapped ==
  LET start == RangeStart(req'[1].range.text)
      end == RangeEnd(req'[1].range.text, TargetSize)
  IN /\ ~start.nan /\ ~end.nan
     /\ 0 <= start.v /\ start.v <= end.v /\ end.v < TargetSize

C24Headers ==
  (Dispatched /\ req'[1].status = 206)
    => /\ TargetExists
       /\ HasRange(req'[1])
       /\ C24Mapped
       /\ \E s \in 0..MaxFileSize, e \in 0..MaxFileSize :
            /\ s <= e /\ e < TargetSize
            /\ req'[1].hdr.contentRange =
                 BytesSp \o Dec(s) \o <<"-">> \o Dec(e) \o <<"/">> \o Dec(TargetSize)
            /\ req'[1].hdr.contentLength = Dec(e - s + 1)
            /\ e - s + 1 >= 1
            /\ req'[1].rs.from = s
            /\ req'[1].rs.to = e
            /\ req'[1].statusLines = 1

C24Body ==
  req[1].status = 206
    => /\ IsPrefix(req[1].body, FileSlice(req[1].path, req[1].rs.from, req[1].rs.to))
       /\ req[1].phase = "ended"
            => req[1].body = FileSlice(req[1].path, req[1].rs.from, req[1].rs.to)

\* C24: for every Range header (well-formed, suffix, non-numeric, negative,
\* multi-range), a request answered 206 carries Content-Range
\* bytes start-end/totalSize with integers 0 <= start <= end < totalSize and
\* Content-Length end-start+1 >= 1, the bytes sent are bytes start..end of the
\* file (a prefix of them until the stream has ended), and a header whose
\* parsed start and end are not such an interval is never answered 206.
C24_PartialContentWellFormed == [][C24Headers /\ C24Body']_vars

\* The multi-range header answered 206 for its first range, stream ended.
C24_Witness ==
  /\ req[1].status = 206
  /\ req[1].range = RangeOf(BytesEq \o <<"0", "-", "0", ",", "1", "-", "2">>)
  /\ req[1].hdr.contentLength = <<"1">>
  /\ req[1].phase = "ended"

\* Supporting reachable state: a suffix range is answered 500, not 206.
C24_SuffixRangeRefused ==
  /\ req[1].range = RangeOf(BytesEq \o <<"-">> \o Dec(1))
  /\ req[1].status = 500

\* ---------------------------------------------- the read-only routes together
\* The video, stored file a with its sidecar, and stored file b.
ReadOnlyDisk ==
  [q \in {VideoPath, UploadPath("a"), MetaPath(UploadPath("a")), UploadPath("b")} |->
     IF q = VideoPath THEN Content(10, 2)
     ELSE IF q = UploadPath("a") THEN Content(20, 2)
     ELSE IF q = UploadPath("b") THEN Content(30, 1)
     ELSE <<"o">>]

InitReadOnly ==
  /\ disk = ReadOnlyDisk
  /\ serverUp = TRUE
  /\ req = [r \in ReqIds |-> NewReq]
  /\ del = NoDelete
  /\ plan = <<>>
  /\ up = IdleUpload
  /\ mu = IdleMulti
  /\ pair = IdlePair
  /\ zip = IdleZip
  /\ ls = NoListing

\* One GET /video or GET /download, one POST /download-zip and GET /files
\* requests, in every interleaving, with read errors and clients that leave.
NextReadOnly ==
  \/ GetVideo(1, {NoRange, RangeOf(BytesEq \o <<"0", "-", "1">>), RangeOf(BytesEq \o <<"1", "-", "0">>)})
  \/ GetDownload(1, {NoRange, RangeOf(BytesEq \o <<"1", "-">>)}, DownloadNames)
  \/ StreamOpen(1)
  \/ StreamRead(1)
  \/ StreamEnd(1)
  \/ ReadError(1)
  \/ ClientClose(1)
  \/ PostDownloadZipOf({[kind |-> "array", list |-> l] : l \in {<<>>, <<"a", "b">>, <<"zz">>}})
  \/ ZipStat
  \/ ZipEntry
  \/ ZipEnd
  \/ ZipReqClose
  \/ ZipReqError
  \/ ListFiles

SpecReadOnly == InitReadOnly /\ [][NextReadOnly]_vars

\* ------------------------------------------------------------------ C25
\* A download that is in flight and takes no part in the step.
C25OtherInFlight ==
  /\ req[1].phase = "piping"
  /\ req'[1] = req[1]

\* C25: no step of GET /video, GET /download/:filename, GET /files or
\* POST /download-zip, whatever its outcome, changes the files of the uploads
\* directory, and none changes another request: a step of the ZIP download or
\* of a listing leaves the download as it is and still being served, and a step
\* of the download leaves the ZIP download and the listing as they are.
C25_ReadOnlyRoutes ==
  [][/\ disk' = disk
     /\ C25OtherInFlight => serverUp'
     /\ zip' # zip => (req' = req /\ ls' = ls)
     /\ ls' # ls => (req' = req /\ zip' = zip)
     /\ req' # req => (zip' = zip /\ ls' = ls)]_vars

\* Supporting property: the files are left as they are.
C25_UploadsUnchanged == [][disk' = disk]_vars

\* ------------------------------------------------------------------ C26
\* A callback of the upload request that the server still has to run: the
\* write stream's open, write and 'finish', fs.stat and its callback, the 100 ms
\* timer of busboy 'finish'.
C26CallbackPending ==
  \/ ENABLED WsOpen
  \/ ENABLED WsFlush
  \/ ENABLED WsFinish
  \/ ENABLED FsStat
  \/ ENABLED StatCallback
  \/ ENABLED DelayedCheck

\* C26: a POST /upload request never gets a second response, and it is never
\* left without one: once its 5-minute timer has been cleared or has fired and
\* no callback of the request is left to run, a response has been sent,
\* whatever the client did.
C26_AnsweredExactlyOnce ==
  /\ Len(up.sent) <= 1
  /\ (up.phase = "running" /\ up.timer \in {"cleared", "fired"} /\ ~C26CallbackPending)
       => Len(up.sent) = 1

\* Supporting property: the same, for requests during which the process stayed
\* up.
C26_AnsweredWhileUp ==
  /\ Len(up.sent) <= 1
  /\ (serverUp /\ up.phase = "running" /\ up.timer \in {"cleared", "fired"}
        /\ ~C26CallbackPending)
       => Len(up.sent) = 1

\* The event loop runs every callback that is due, and the 5-minute timer
\* expires when it is armed; the client is under no obligation.
SpecUploadFair ==
  /\ SpecUpload
  /\ WF_vars(UploadTimeout)
  /\ WF_vars(WsOpen)
  /\ WF_vars(WsFlush)
  /\ WF_vars(WsFinish)
  /\ WF_vars(FsStat)
  /\ WF_vars(StatCallback)
  /\ WF_vars(DelayedCheck)

\* Supporting property: while the process stays up, every request is answered
\* in the end, whether the client completes, stalls or breaks off.
C26_EventuallyAnsweredWhileUp ==
  (up.phase = "running") ~> (Len(up.sent) = 1 \/ ~serverUp)

\* The claim's liveness statement, violated by the same run as
\* C26_AnsweredExactlyOnce.
C26_EventuallyAnswered == (up.phase = "running") ~> (Len(up.sent) = 1)

\* ------------------------------------------------------------------ C27
\* The request was answered with an error status, the part is no longer being
\* read and no callback of the request is left to run.
C27ErrorSettled ==
  /\ serverUp
  /\ Len(up.sent) = 1
  /\ up.sent[1].status \in {400, 408, 500}
  /\ up.fstream # "flowing"
  /\ ~C26CallbackPending

\* C27: once a POST /upload request that was answered 400, 408 or 500 has run
\* all its callbacks, neither the file it created nor that file's sidecar is in
\* the uploads directory.
C27_ErrorLeavesNothing ==
  (C27ErrorSettled /\ up.filename # "")
    => /\ ~ExistsSync(disk, UploadPath(up.filename))
       /\ ~ExistsSync(disk, MetaPath(UploadPath(up.filename)))

\* Supporting reachable state: answered 400 "No file uploaded", with the file
\* and its sidecar stored afterwards.
C27_NoFileUploadedButStored ==
  /\ C27ErrorSettled
  /\ up.sent[1] = [status |-> 400, msg |-> "No file uploaded"]
  /\ ExistsSync(disk, UploadPath(up.filename))
  /\ ExistsSync(disk, MetaPath(UploadPath(up.filename)))

\* Supporting reachable state: answered 408, with the file stored afterwards.
C27_TimeoutButStored ==
  /\ C27ErrorSettled
  /\ up.sent[1].status = 408
  /\ up.uploadedFile.set
  /\ ExistsSync(disk, MetaPath(UploadPath(up.filename)))

\* ------------------------------------------------------------------ C28
\* Every callback of the upload request has run: the write stream is done, no
\* fs.stat and no 100 ms check is outstanding.
C28Settled ==
  /\ serverUp
  /\ up.phase = "running"
  /\ up.ws \notin {"writing", "ending"}
  /\ ~up.statPending
  /\ ~up.delayPending

\* Every sidecar of the uploads directory has its file.
C28SidecarHasFile ==
  \A n \in UploadedNames :
    ExistsSync(disk, MetaPath(UploadPath(n))) => ExistsSync(disk, UploadPath(n))

\* The step in which the request is answered with success.
C28SuccessSent ==
  /\ up.sent = <<>>
  /\ up'.sent # <<>>
  /\ up'.sent[1].status = 200

\* C28: in every interleaving of a POST /upload with DELETE /files/:filename
\* requests, once all callbacks of the upload have run every sidecar in the
\* uploads directory has its file, and the file named in a success response is
\* in the uploads directory when that response is sent.
C28_SidecarAndSuccessHaveFile ==
  [][/\ C28Settled' => C28SidecarHasFile'
     /\ C28SuccessSent => ExistsSync(disk, UploadPath(up'.uploadedFile.filename))]_vars

\* Supporting reachable state: a sidecar without its file, the file having been
\* deleted between fs.stat and its callback.
C28_OrphanSidecar ==
  /\ C28Settled
  /\ ~C28SidecarHasFile
  /\ del.status = 200

\* Supporting reachable state: success answered for a file that a DELETE has
\* removed before the 100 ms check ran.
C28_SuccessForDeletedFile ==
  /\ C28Settled
  /\ Len(up.sent) = 1
  /\ up.sent[1].status = 200
  /\ del.status = 200
  /\ ~ExistsSync(disk, UploadPath(up.filename))
  /\ ~ExistsSync(disk, MetaPath(UploadPath(up.filename)))

\* ------------------------------------------------------------------ C29
\* The Content-Length header of the ZIP response declares n bytes.
C29Declares(n) == zip.hdr.contentLength = StrOf(NatToStr(n))

\* C29: a POST /download-zip response opened with status 200 that declares a
\* Content-Length never has more body bytes written than it declares, and once
\* the archive is finalized the declared length is the number of bytes written.
C29_ContentLengthMatchesBody ==
  (zip.status = 200 /\ zip.hdr.contentLength # "")
    => /\ \A n \in 0..(zip.bytesOut - 1) : ~C29Declares(n)
       /\ zip.ended => C29Declares(zip.bytesOut)

\* -------------------------------------------------- uploads and GET /files
InitUploadList ==
  /\ disk = [q \in {} |-> <<>>]
  /\ serverUp = TRUE
  /\ req = [r \in ReqIds |-> NewReq]
  /\ del = NoDelete
  /\ plan = <<>>
  /\ up = IdleUpload
  /\ mu = IdleMulti
  /\ pair = IdlePair
  /\ zip = IdleZip
  /\ ls = NoListing

\* One POST /upload that the client sends to its end, with GET /files requests
\* at any point and no DELETE.
NextUploadList ==
  \/ UploadStart
  \/ FileEventOf(ExtFilenames)
  \/ WsOpen
  \/ FileData
  \/ WsFlush
  \/ FileEnd
  \/ WsFinish
  \/ FsStat
  \/ StatCallback
  \/ BusboyFinish
  \/ DelayedCheck
  \/ ListFiles

SpecUploadList == InitUploadList /\ [][NextUploadList]_vars

\* ------------------------------------------------------------------ C30
\* The entries of listing l for the stored file of the upload.
C30Entries(l) == {f \in l.files : f.filename = up.uploadedFile.filename}

\* C30: every GET /files answered after the success response of a POST /upload
\* (no DELETE being sent) lists the stored file exactly once, with the original
\* name the client sent and the number of bytes stored as its size, whatever
\* the extension of the original name.
C30_UploadedFileListed ==
  [][(UploadSucceeded /\ ls'.count # ls.count)
       => /\ Cardinality(C30Entries(ls')) = 1
          /\ \A f \in C30Entries(ls') :
               /\ f.originalName = up.originalName
               /\ f.size = Len(disk[UploadPath(up.uploadedFile.filename)])]_vars

\* Supporting property: the same for original names whose extension is not
\* ".meta".
C30_UploadedFileListedUnlessMeta ==
  [][(UploadSucceeded /\ ls'.count # ls.count /\ ExtName(up.originalName) # DotMeta)
       => /\ Cardinality(C30Entries(ls')) = 1
          /\ \A f \in C30Entries(ls') :
               /\ f.originalName = up.originalName
               /\ f.size = Len(disk[UploadPath(up.uploadedFile.filename)])]_vars

\* Supporting reachable state: a listing with the stored file in it.
C30_Listed ==
  /\ UploadSucceeded
  /\ ls.count > 0
  /\ C30Entries(ls) # {}
  /\ up.received = FileSizeLimit

====
